---- MODULE Spec2Model ----
(***************************************************************************)
(* Model of the client-side resource layer of Kolibri Studio               *)
(* (frontend/shared/data/resources.js): the IndexedDB-backed resources,    *)
(* the remote fetch reconciliation, and the tree ordering engine.          *)
(***************************************************************************)
EXTENDS Integers, Sequences, FiniteSets, TLC

VARIABLES
  table,      \* the table of one flat syncable Resource: key -> object
  changes,    \* the shared change log (CHANGES_TABLE), in insertion order
  now,        \* Date.now(), in milliseconds
  requests,   \* collection/model requests posted on the broadcast channel
  calls,      \* promises handed to callers of Resource.where / Resource.get
  listeners,  \* the message ids whose handler makeRequest has registered on
              \* the broadcast channel
  last,       \* the operation that produced the current state, when it is
              \* one the properties speak of, with the state it started from
  users,      \* the table of the User resource: id -> object
  editors,    \* the table of EditorM2M: [user+channel] -> object
  viewers,    \* the table of ViewerM2M: [user+channel] -> object
  tree,       \* the table of the Tree resource: id -> node
  tx          \* the transaction of the tree operation in progress or last
              \* settled: its arguments, its phase and its working copy

userVars == <<users, editors, viewers>>
treeVars == <<tree, tx>>
vars == <<table, changes, now, requests, calls, listeners, last, userVars,
          treeVars>>

----------------------------------------------------------------------------
(* Bounds of the model *)

MaxChanges == 2     \* records the change log holds before the sync drains it
MaxRequests == 1    \* requests posted on the broadcast channel
MaxCalls == 2       \* reads (where/get) made by callers of this context
MaxTicks == 2       \* clock steps
MaxTreeOps == 1     \* calls of Tree.move / Tree.copy
MaxNodes == 5       \* ids the tree table can hold
MaxBulk == 3        \* objects a bulkCopy is asked to copy
ChunkSize == 2      \* objects of one chunk of bulkCopy (20 in the source)
MaxItems == 3       \* objects of a table that is queried
MaxMerge == 3       \* change records of one key that are merged
MaxSiblings == 3    \* children of the parent a sort order is computed under
MaxRepeats == 2     \* times a ContentNode.copy is called again

(* Program constants *)

REFRESH_INTERVAL == 60

\* tree nodes of one chunk of ContentNode.copy
TreeNodeChunk == 50

\* source ids of one chunk of ContentNode.copy: 10 in the source, fewer than
\* the 20 objects of one chunk of bulkCopy
SourceChunk == ChunkSize - 1

FetchError == "NetworkError"

CLIENTID == "client"
IGNORED_SOURCE == "ignored"
NEW_OBJECT == "__new"
LAST_FETCHED == "__last_fetch"

CREATED == "CREATED"
UPDATED == "UPDATED"
DELETED == "DELETED"
MOVED == "MOVED"
COPIED == "COPIED"

Keys == {1, 2}
XValues == {1, 2}

----------------------------------------------------------------------------
(* Objects are functions from a finite set of field names to values. *)

NoObj == [f \in {} |-> 0]

Has(obj, f) == f \in DOMAIN obj

\* Object.assign(a, b) / { ...a, ...b }
Assign(a, b) ==
  [f \in (DOMAIN a) \cup (DOMAIN b) |-> IF f \in DOMAIN b THEN b[f] ELSE a[f]]

\* delete obj[f]
Without(obj, f) == [g \in (DOMAIN obj) \ {f} |-> obj[g]]

\* lodash pick(obj, fields)
Pick(obj, fields) == [g \in (DOMAIN obj) \cap fields |-> obj[g]]

RECURSIVE SortedSeq(_)
SortedSeq(S) ==
  IF S = {} THEN <<>>
  ELSE LET m == CHOOSE a \in S : \A b \in S : a <= b
       IN <<m>> \o SortedSeq(S \ {m})

SeqRange(s) == {s[i] : i \in 1..Len(s)}

RECURSIVE SelectSeqIdx(_, _)
\* the subsequence of s at the (ascending) indices in I
SelectSeqIdx(s, I) ==
  IF I = {} THEN <<>>
  ELSE LET m == CHOOSE a \in I : \A b \in I : a <= b
       IN <<s[m]>> \o SelectSeqIdx(s, I \ {m})

----------------------------------------------------------------------------
(* Query parameters.  A parameter key "field__suffix" is the pair          *)
(* <<field, suffix>> (suffix "" when the key has no separator); a          *)
(* parameter value carries its JavaScript kind, so that a number is never  *)
(* compared with an array.                                                 *)

Num(v) == [k |-> "num", v |-> v]
Bool(v) == [k |-> "bool", v |-> v]
Arr(S) == [k |-> "arr", v |-> S]

FieldKind(f) == IF f \in {"bookmark", NEW_OBJECT} THEN "bool" ELSE "num"

QUERY_SUFFIXES == {"in", "gt", "gte", "lt", "lte"}

\* this.indexFields of the Channel resource: the primary key and the
\* declared indexes
indexFields == {"id", "name", "language"}

\* this.annotatedFilters of the flat resource
annotatedFilters == {"bookmark"}

NoParams == [p \in {} |-> Num(0)]

\* for (let key of Object.keys(params)): the partition of the parameters
suffixedKeys(params) ==
  {p \in DOMAIN params : p[2] \in QUERY_SUFFIXES /\ p[2] # "in"}

arrayKeys(params) ==
  {p \in (DOMAIN params) \ suffixedKeys(params) :
     p[1] \in indexFields /\ p[2] = "in"}

whereKeys(params) ==
  {p \in (DOMAIN params) \ suffixedKeys(params) :
     p[1] \in indexFields /\ p[2] = ""}

filterKeys(params) ==
  {p \in (DOMAIN params) \ suffixedKeys(params) : p[1] \notin indexFields}

\* lodash matches(filterParams)(item), one parameter
MatchesParam(item, f, val) ==
  /\ Has(item, f)
  /\ val.k = FieldKind(f)
  /\ item[f] = val.v

\* range predicates that are all strict
SuffixHoldsStrict(item, f, suffix, val) ==
  /\ Has(item, f)
  /\ CASE suffix \in {"lt", "lte"} -> item[f] < val.v
       [] OTHER -> item[f] > val.v

\* one suffixed (range) predicate
SuffixHolds(item, f, suffix, val) ==
  /\ Has(item, f)
  /\ val.k = "num"
  /\ FieldKind(f) = "num"
  /\ CASE suffix = "lt" -> item[f] < val.v
       [] suffix = "lte" -> item[f] <= val.v
       [] suffix = "gt" -> item[f] > val.v
       [] suffix = "gte" -> item[f] >= val.v
       [] OTHER -> FALSE

\* where() throws instead of returning: console.warning is not a function
\* (development builds), or collection is left undefined (more than one
\* __in parameter).
WhereThrows(params, production) ==
  \/ Cardinality(arrayKeys(params)) > 1
  \/ /\ Cardinality(arrayKeys(params)) = 1
     /\ Cardinality(whereKeys(params)) > 1
     /\ ~production

\* IndexedDBResource.where(params): the matching objects in primary-key order
IndexedDBWhere(params, tbl) ==
  LET aKeys == arrayKeys(params)
      wKeys == whereKeys(params)
      \* Object.assign(filterParams, whereParams) when an __in lookup is used
      fKeys == filterKeys(params) \cup (IF aKeys # {} THEN wKeys ELSE {})
      inBase(item) ==
        IF aKeys # {}
        THEN \A p \in aKeys :
               /\ Has(item, p[1])
               /\ params[p].k = "arr"
               /\ item[p[1]] \in params[p].v
        ELSE \A p \in wKeys : MatchesParam(item, p[1], params[p])
      passes(item) ==
        /\ \A p \in fKeys : MatchesParam(item, p[1], params[p])
        /\ \A p \in suffixedKeys(params) :
             SuffixHolds(item, p[1], p[2], params[p])
      ks == {k \in DOMAIN tbl : inBase(tbl[k]) /\ passes(tbl[k])}
      order == SortedSeq(ks)
  IN [i \in 1..Len(order) |-> tbl[order[i]]]

\* objectsAreStale(objs) at time t
objectsAreStaleInclusive(objs, t) ==
  \E i \in 1..Len(objs) :
    /\ Has(objs[i], LAST_FETCHED)
    /\ objs[i][LAST_FETCHED] + REFRESH_INTERVAL * 1000 <= t

objectsAreStale(objs, t) ==
  \E i \in 1..Len(objs) :
    /\ Has(objs[i], LAST_FETCHED)
    /\ objs[i][LAST_FETCHED] + REFRESH_INTERVAL * 1000 < t

----------------------------------------------------------------------------
(* The change tracker and the change log *)

TABLE == "channel"

Change(key, type, obj, mods, oldObj, from_key, source, tbl) ==
  [key |-> key, table |-> tbl, type |-> type, obj |-> obj, mods |-> mods,
   oldObj |-> oldObj, from_key |-> from_key, source |-> source]

\* the modified properties of a put/update over an existing object
Diff(old, new) ==
  [f \in {g \in DOMAIN new : ~Has(old, g) \/ old[g] # new[g]} |-> new[f]]

\* The change records a write of key k appends: none unless the transaction
\* carries the local client id and the table is syncable.
Tracked(source, syncable, tbl, k, old, new, oldHas, newHas) ==
  IF source # CLIENTID \/ ~syncable THEN <<>>
  ELSE IF ~oldHas /\ newHas
    THEN <<Change(k, CREATED, new, NoObj, NoObj, 0, source, tbl)>>
  ELSE IF oldHas /\ ~newHas
    THEN <<Change(k, DELETED, NoObj, NoObj, NoObj, 0, source, tbl)>>
  ELSE IF oldHas /\ newHas /\ old # new
    THEN <<Change(k, UPDATED, NoObj, Diff(old, new), NoObj, 0, source, tbl)>>
  ELSE <<>>

\* the change records of a transaction that turned table t0 into t1
RECURSIVE TrackKeys(_, _, _, _, _, _)
TrackKeys(source, syncable, tbl, t0, t1, ks) ==
  IF ks = {} THEN <<>>
  ELSE LET k == CHOOSE a \in ks : \A b \in ks : a <= b
           oldHas == k \in DOMAIN t0
           newHas == k \in DOMAIN t1
       IN Tracked(source, syncable, tbl, k,
                  IF oldHas THEN t0[k] ELSE NoObj,
                  IF newHas THEN t1[k] ELSE NoObj, oldHas, newHas)
          \o TrackKeys(source, syncable, tbl, t0, t1, ks \ {k})

TrackTable(source, syncable, tbl, t0, t1) ==
  TrackKeys(source, syncable, tbl, t0, t1, (DOMAIN t0) \cup (DOMAIN t1))

\* the records of the log that a sync would send to the server
ClientChanges(chs) ==
  SelectSeq(chs, LAMBDA c : c.source = CLIENTID)

----------------------------------------------------------------------------
(* Change merger *)

NoChange == [type |-> "none"]

\* the net effect of change c applied after the effective change acc
MergeChange(acc, c) ==
  IF acc.type = "none" THEN c
  ELSE IF acc.type = DELETED THEN acc
  ELSE IF c.type = DELETED THEN c
  ELSE IF acc.type = CREATED /\ c.type = UPDATED
    THEN [acc EXCEPT !.obj = Assign(acc.obj, c.mods)]
  ELSE IF acc.type = UPDATED /\ c.type = UPDATED
    THEN [acc EXCEPT !.mods = Assign(acc.mods, c.mods)]
  ELSE c

RECURSIVE MergeFrom(_, _, _)
MergeFrom(acc, chs, i) ==
  IF i > Len(chs) THEN acc
  ELSE MergeFrom(MergeChange(acc, chs[i]), chs, i + 1)

AttributeTypes == {CREATED, UPDATED, DELETED}

\* the log's records for key k, the most recent first
ChangesForReversed(chs, tbl, k) ==
  LET sel == SelectSeq(chs, LAMBDA c : c.table = tbl /\ c.key = k)
  IN [i \in 1..Len(sel) |-> sel[Len(sel) + 1 - i]]

\* the log's records for key k without the most recent one
ChangesForButLast(chs, tbl, k) ==
  LET sel == SelectSeq(chs, LAMBDA c : c.table = tbl /\ c.key = k)
  IN SubSeq(sel, 1, Len(sel) - 1)

\* the log's records for key k of table tbl, in insertion order
ChangesFor(chs, tbl, k) ==
  SelectSeq(chs, LAMBDA c : c.table = tbl /\ c.key = k)

\* mergeAllChanges + collectChanges: the effective attribute change of key k
EffectiveChange(chs, tbl, k) ==
  MergeFrom(NoChange,
            SelectSeq(ChangesFor(chs, tbl, k),
                      LAMBDA c : c.type \in AttributeTypes), 1)

\* collectedChanges[type][k] exists
Collected(chs, tbl, type, k) == EffectiveChange(chs, tbl, k).type = type

----------------------------------------------------------------------------
(* IndexedDBResource: local writes of the flat resource *)

Upsert(tbl, k, o) == [j \in (DOMAIN tbl) \cup {k} |-> IF j = k THEN o ELSE tbl[j]]

Remove(tbl, k) == [j \in (DOMAIN tbl) \ {k} |-> tbl[j]]

\* _cleanNew(obj)
CleanNew(obj) == Without(obj, NEW_OBJECT)

\* _prepareCopy(original): fresh stands for uuid4()
PrepareCopy(original, fresh, uuid) ==
  CleanNew(Assign(original, IF uuid THEN [f \in {"id"} |-> fresh] ELSE NoObj))

\* _preparePut(obj)
PreparePut(obj, fresh) == CleanNew(Assign(PrepareCopy(NoObj, fresh, TRUE), obj))

\* table.put(obj)
TablePut(tbl, obj) == Upsert(tbl, obj["id"], obj)

\* table.bulkPut(objs): the puts in order
RECURSIVE TableBulkPut(_, _, _)
TableBulkPut(tbl, objs, i) ==
  IF i > Len(objs) THEN tbl
  ELSE TableBulkPut(TablePut(tbl, objs[i]), objs, i + 1)

\* table.update(id, changes)
TableUpdate(tbl, id, ch) ==
  IF id \in DOMAIN tbl THEN [tbl EXCEPT ![id] = Assign(@, ch)] ELSE tbl

\* table.delete(id)
TableDelete(tbl, id) == Remove(tbl, id)

\* IndexedDBResource.transaction sets Dexie.currentTransaction.source
TransactionSource == CLIENTID

----------------------------------------------------------------------------
(* Resource.fetchCollection: reconciliation of a response *)

\* pick(params, this.annotatedFilters)
AnnotatedOf(params) ==
  [f \in {g \in annotatedFilters : <<g, "">> \in DOMAIN params} |->
     params[<<f, "">>].v]

\* ReconcileDatum without the overlay of the UPDATED change
ReconcileDatumNoUpdated(datum, params, t, chs) ==
  LET d1 == Assign(datum, [f \in {LAST_FETCHED} |-> t])
      d2 == Assign(d1, AnnotatedOf(params))
      eff == EffectiveChange(chs, TABLE, d2["id"])
  IN IF eff.type = CREATED THEN Assign(d2, eff.obj) ELSE d2

\* ReconcileDatum with the fetched item laid over the CREATED object
ReconcileDatumFetchedWins(datum, params, t, chs) ==
  LET d1 == Assign(datum, [f \in {LAST_FETCHED} |-> t])
      d2 == Assign(d1, AnnotatedOf(params))
      eff == EffectiveChange(chs, TABLE, d2["id"])
      d3 == IF eff.type = CREATED THEN Assign(eff.obj, d2) ELSE d2
  IN IF eff.type = UPDATED THEN Assign(d3, eff.mods) ELSE d3

\* the body of itemData.map(datum => ...): the datum as it is left
ReconcileDatum(datum, params, t, chs) ==
  LET d1 == Assign(datum, [f \in {LAST_FETCHED} |-> t])
      d2 == Assign(d1, AnnotatedOf(params))
      eff == EffectiveChange(chs, TABLE, d2["id"])
      d3 == IF eff.type = CREATED THEN Assign(d2, eff.obj) ELSE d2
  IN IF eff.type = UPDATED THEN Assign(d3, eff.mods) ELSE d3

\* KeepDatum without the filter
KeepDatumAll(datum, chs) == TRUE

\* the .filter(...) after the map: items with a DELETED change are not put
KeepDatum(datum, chs) == ~Collected(chs, TABLE, DELETED, datum["id"])

\* a fetch transaction that keeps the source of the local client
FetchSourceLocal == CLIENTID

\* Dexie.currentTransaction.source of the fetch transactions
FetchSource == IGNORED_SOURCE

\* itemData after the map (what fetchCollection resolves with)
FetchItemData(itemData, params, t, chs) ==
  [i \in 1..Len(itemData) |-> ReconcileDatum(itemData[i], params, t, chs)]

\* the table after the transaction of fetchCollection
FetchCollectionTable(tbl, itemData, params, t, chs) ==
  LET data == SelectSeq(FetchItemData(itemData, params, t, chs),
                        LAMBDA d : KeepDatum(d, chs))
  IN TableBulkPut(tbl, data, 1)

\* the table after the transaction of fetchModel
FetchModelTable(tbl, data, t) ==
  TablePut(tbl, Assign(data, [f \in {LAST_FETCHED} |-> t]))

----------------------------------------------------------------------------
(* The flat resource: inputs *)

\* objects handed to put, and data the server answers with
InputObjs == {[f \in {"id", "x"} |-> IF f = "id" THEN k ELSE v] :
                k \in Keys, v \in XValues}

\* change sets handed to update
InputMods == {[f \in {"x"} |-> v] : v \in XValues}

\* server responses to a collection request: items in ascending id order
\* the value of x on the server
ServerX == CHOOSE v \in XValues : \A w \in XValues : w <= v

Responses ==
  {SortedSeq(S) : S \in SUBSET Keys} \X {[k \in Keys |-> ServerX]}

ResponseData(resp) ==
  [i \in 1..Len(resp[1]) |->
     [f \in {"id", "x"} |-> IF f = "id" THEN resp[1][i] ELSE resp[2][resp[1][i]]]]

WhereParams ==
  {NoParams,
   [p \in {<<"bookmark", "">>} |-> Bool(TRUE)]}

\* the clock first jumps by the refresh interval, then moves by milliseconds
TickStep(t) == IF t = 0 THEN REFRESH_INTERVAL * 1000 ELSE 1

\* the record of an operation: its name, its input, its result, and the
\* tables as they were when it started
Did(name, input, result, at) ==
  [op |-> name, input |-> input, result |-> result, at |-> at,
   table |-> table, changes |-> changes]

Other == [op |-> "other"]

Request(kind, params, id, call) ==
  [kind |-> kind, params |-> params, id |-> id, phase |-> "posted",
   data |-> <<>>, at |-> 0, call |-> call, err |-> ""]

\* a promise handed to a caller: objs is what the local read gave, req the
\* request the call posted (0 for none), err the reason of a rejection
Call(kind, status, objs, result, req) ==
  [kind |-> kind, status |-> status, objs |-> objs, result |-> result,
   req |-> req, err |-> ""]

----------------------------------------------------------------------------
(* ChannelUser: the users of a channel and their roles *)

UserIds == {1, 2}
ChannelIds == {1}

USER == "user"
EDITOR_M2M == "editor_m2m"
VIEWER_M2M == "viewer_m2m"

\* the compound primary key [user+channel] of the M2M tables, as a number
M2MKey(user, channel) == user * 10 + channel

\* the roles on the server: the first user edits, the others view
ServerRole(u) == IF u = 1 THEN "edit" ELSE "view"

\* response.data of the channeluser endpoint: users of the channel in
\* ascending id order, each with its two role flags
ChannelUserResponses ==
  {[i \in 1..Len(SortedSeq(S)) |->
      [f \in {"id", "can_edit", "can_view"} |->
         IF f = "id" THEN SortedSeq(S)[i]
         ELSE IF f = "can_edit" THEN ServerRole(SortedSeq(S)[i]) = "edit"
         ELSE TRUE]] :
     S \in SUBSET UserIds}

\* userData of ChannelUser.fetchCollection
userDataOf(itemData, t) ==
  [i \in 1..Len(itemData) |->
     Without(Without(Assign(itemData[i], [f \in {LAST_FETCHED} |-> t]),
                     "can_edit"), "can_view")]

m2mDatum(datum, channel, t) ==
  [f \in {LAST_FETCHED, "user", "channel"} |->
     IF f = LAST_FETCHED THEN t
     ELSE IF f = "user" THEN datum["id"] ELSE channel]

\* Table.bulkPut(objs) on a table whose key of an object is key[obj]
RECURSIVE RawBulkPut(_, _, _, _)
RawBulkPut(tbl, objs, key, i) ==
  IF i > Len(objs) THEN tbl
  ELSE RawBulkPut(Upsert(tbl, key[i], objs[i]), objs, key, i + 1)

\* editorM2M / viewerM2M of ChannelUser.fetchCollection
editorM2MOf(itemData, channel, t) ==
  LET I == {i \in 1..Len(itemData) : itemData[i]["can_edit"]}
  IN [i \in 1..Cardinality(I) |->
        m2mDatum(SelectSeqIdx(itemData, I)[i], channel, t)]

viewerM2MOf(itemData, channel, t) ==
  LET I == {i \in 1..Len(itemData) :
              ~itemData[i]["can_edit"] /\ itemData[i]["can_view"]}
  IN [i \in 1..Cardinality(I) |->
        m2mDatum(SelectSeqIdx(itemData, I)[i], channel, t)]

M2MBulkPut(tbl, data) ==
  RawBulkPut(tbl, data,
             [i \in 1..Len(data) |-> M2MKey(data[i]["user"], data[i]["channel"])], 1)

UserBulkPut(tbl, data) ==
  RawBulkPut(tbl, data, [i \in 1..Len(data) |-> data[i]["id"]], 1)

----------------------------------------------------------------------------
(* The Tree resource: ordering of siblings *)

TREE == "tree"

FIRST_CHILD == "first-child"
LAST_CHILD == "last-child"
LEFT == "left"
RIGHT == "right"

validPositions == {FIRST_CHILD, LAST_CHILD, LEFT, RIGHT}

NodeIds == 1..MaxNodes

\* JavaScript null (the parent of a root, the source_id of a moved-in node,
\* the sort order of a no-op) and NaN, which no id or sort order equals
Null == -1
NaN == -2

\* lft is kept in units of 1 / LftUnit, so that every halving a bounded
\* run performs is exact
LftUnit == 2 ^ (MaxTreeOps + 1)

\* ToNumber(v) of a sort order: null is 0 in arithmetic and in comparisons
NumOf(v) == IF v = Null THEN 0 ELSE v

\* Array.prototype.sort on lft: ascending, ties in the order of the index
\* (ascending primary key)
RECURSIVE SortByLft(_, _)
SortByLft(tr, ids) ==
  IF ids = {} THEN <<>>
  ELSE LET m == CHOOSE a \in ids : \A b \in ids :
                  \/ NumOf(tr[a]["lft"]) < NumOf(tr[b]["lft"])
                  \/ NumOf(tr[a]["lft"]) = NumOf(tr[b]["lft"]) /\ a <= b
       IN <<tr[m]>> \o SortByLft(tr, ids \ {m})

\* this.table.where({ parent }).sortBy('lft')
childrenOf(tr, parent) ==
  SortByLft(tr, {n \in DOMAIN tr : tr[n]["parent"] = parent})

\* Tree.resolveParent(target, position)
resolveParent(tr, target, position) ==
  IF position \in {FIRST_CHILD, LAST_CHILD}
    THEN [ok |-> TRUE, parent |-> target]
  ELSE IF target \in DOMAIN tr
    THEN [ok |-> TRUE, parent |-> tr[target]["parent"]]
  ELSE [ok |-> FALSE, parent |-> Null]

\* Tree.getNewParentAndSiblings(target, position); a query for the
\* children of null is rejected by the store (null is not a valid key)
getNewParentAndSiblings(tr, target, position) ==
  LET r == resolveParent(tr, target, position)
  IN IF ~r.ok \/ r.parent = Null
       THEN [ok |-> FALSE, parent |-> Null, siblings |-> <<>>]
       ELSE [ok |-> TRUE, parent |-> r.parent,
             siblings |-> childrenOf(tr, r.parent)]

\* lodash findIndex(siblings, { id }) + 1: 0 when there is none
findIndex(siblings, id) ==
  LET I == {i \in 1..Len(siblings) : siblings[i]["id"] = id}
  IN IF I = {} THEN 0 ELSE CHOOSE i \in I : \A j \in I : i <= j

\* a sort order computation whose first-child case does not halve
getNewSortOrderNoHalving(id, target, position, siblings) ==
  LET n == Len(siblings)
      i == findIndex(siblings, target)
      lftAt(j) == NumOf(siblings[j]["lft"])
  IN IF position = FIRST_CHILD THEN lftAt(1)
     ELSE IF position = LAST_CHILD THEN lftAt(n) + LftUnit
     ELSE IF position = LEFT
       THEN ((IF i - 1 >= 1 THEN lftAt(i - 1) ELSE 0) + lftAt(i)) \div 2
     ELSE (lftAt(i) + (IF i + 1 <= n THEN lftAt(i + 1)
                       ELSE lftAt(i) + 2 * LftUnit)) \div 2

\* Tree.getNewSortOrder(id, target, position, siblings), siblings not empty
getNewSortOrder(id, target, position, siblings) ==
  LET n == Len(siblings)
      i == findIndex(siblings, target)
      lftAt(j) == NumOf(siblings[j]["lft"])
      noop ==
        \/ position = FIRST_CHILD /\ siblings[1]["id"] = id
        \/ position = LAST_CHILD /\ siblings[n]["id"] = id
        \/ position = LEFT /\ i - 1 > 0 /\ siblings[i - 1]["id"] = id
        \/ position = RIGHT /\ i - 1 < n - 2 /\ siblings[i + 1]["id"] = id
  IN IF noop THEN Null
     ELSE IF position = FIRST_CHILD THEN lftAt(1) \div 2
     ELSE IF position = LAST_CHILD THEN lftAt(n) + LftUnit
     ELSE IF position = LEFT
       THEN ((IF i - 1 >= 1 THEN lftAt(i - 1) ELSE 0) + lftAt(i)) \div 2
     ELSE IF position = RIGHT
       THEN (lftAt(i) + (IF i + 1 <= n THEN lftAt(i + 1)
                         ELSE lftAt(i) + 2 * LftUnit)) \div 2
     ELSE Null

\* the outcome of a rejected tableMove / tableCopy
Rejected(tr) ==
  [ok |-> FALSE, tree |-> tr, data |-> NoObj, change |-> NoChange]

\* mods that carry the computed sort order as well
MoveModsWithLft(target, position) ==
  [target |-> target, position |-> position, lft |-> LftUnit]

MoveMods(target, position) == [target |-> target, position |-> position]

\* Tree.tableMove(id, target, position) on the table tr: the table after
\* the node write, the data it resolves with, and the MOVED record
tableMove(tr, id, target, position) ==
  LET ps == getNewParentAndSiblings(tr, target, position)
      has == Len(ps.siblings) > 0
      lft == IF has THEN getNewSortOrder(id, target, position, ps.siblings)
             ELSE LftUnit
      tgt == IF has THEN target ELSE ps.parent
      pos == IF has THEN position ELSE LAST_CHILD
      data == [f \in {"parent", "lft"} |-> IF f = "parent" THEN ps.parent ELSE lft]
      oldObj == IF id \in DOMAIN tr THEN tr[id] ELSE NoObj
      updated == id \in DOMAIN tr /\ Assign(tr[id], data) # tr[id]
      change == Change(id, MOVED, NoObj, MoveMods(tgt, pos), oldObj, 0,
                       CLIENTID, TREE)
  IN IF position \notin validPositions \/ ~ps.ok THEN Rejected(tr)
     ELSE IF updated
       THEN [ok |-> TRUE, tree |-> Upsert(tr, id, Assign(tr[id], data)),
             data |-> Assign([f \in {"id"} |-> id], data), change |-> change]
     ELSE IF ps.parent \notin DOMAIN tr THEN Rejected(tr)
     ELSE LET put == [f \in {"id", "parent", "lft", "tree_id", "channel_id",
                             "source_id"} |->
                        IF f = "id" THEN id
                        ELSE IF f = "parent" THEN ps.parent
                        ELSE IF f = "lft" THEN lft
                        ELSE IF f = "source_id" THEN Null
                        ELSE tr[ps.parent][f]]
          IN [ok |-> TRUE, tree |-> Upsert(tr, id, put), data |-> put,
              change |-> change]

CopyMods(target, position, lft, channel_id) ==
  [target |-> target, position |-> position, lft |-> lft,
   channel_id |-> channel_id]

\* Tree.tableCopy(id, target, position, changeType), uuid4() giving newId
tableCopy(tr, id, target, position, changeType, newId) ==
  LET ps == getNewParentAndSiblings(tr, target, position)
      has == Len(ps.siblings) > 0
      lft == IF has THEN getNewSortOrder(id, target, position, ps.siblings)
             ELSE LftUnit
      tgt == IF has THEN target ELSE ps.parent
      pos == IF has THEN position ELSE LAST_CHILD
  IN IF position \notin validPositions \/ ~ps.ok
        \/ id \notin DOMAIN tr \/ ps.parent \notin DOMAIN tr
       THEN Rejected(tr)
     ELSE LET parentNode == tr[ps.parent]
              data == [f \in {"id", "source_id", "lft", "tree_id", "channel_id",
                              "parent", "level"} |->
                         IF f = "id" THEN newId
                         ELSE IF f = "source_id" THEN id
                         ELSE IF f = "lft" THEN lft
                         ELSE IF f = "tree_id" THEN parentNode["tree_id"]
                         ELSE IF f = "channel_id" THEN tr[id]["channel_id"]
                         ELSE IF f = "parent" THEN parentNode["id"]
                         ELSE IF Has(parentNode, "level") /\ parentNode["level"] # NaN
                           THEN parentNode["level"] + 1
                         ELSE NaN]
          IN [ok |-> TRUE, tree |-> Upsert(tr, newId, data), data |-> data,
              change |-> Change(newId, changeType, NoObj,
                                CopyMods(tgt, pos, lft, data["channel_id"]),
                                NoObj, id, CLIENTID, TREE)]

\* a tree node as the server sends it
Node(id, parent, lft, level) ==
  [f \in {"id", "parent", "lft", "tree_id", "channel_id", "source_id", "level"} |->
     IF f = "id" THEN id
     ELSE IF f = "parent" THEN parent
     ELSE IF f = "lft" THEN lft
     ELSE IF f = "level" THEN level
     ELSE IF f = "source_id" THEN Null
     ELSE 1]

\* the tree a session starts from: a root with two children
InitialTree ==
  [n \in {1, 2, 3} |->
     IF n = 1 THEN Node(1, Null, LftUnit, 0)
     ELSE Node(n, 1, (n - 1) * LftUnit, 1)]

\* no transaction has run
TxIdle == [phase |-> "idle", ops |-> 0, queue |-> <<>>]

\* what a transaction that aborts leaves of its writes: nothing
RollbackPartial(committed, working) == working

Rollback(committed, working) == committed

----------------------------------------------------------------------------
(* The flat resource: operations *)

\* this.transaction('rw', () => body): the write and its tracked changes
LocalWrite(newTable) ==
  LET appended == TrackTable(TransactionSource, TRUE, TABLE, table, newTable)
  IN /\ Len(changes) + Len(appended) <= MaxChanges
     /\ table' = newTable
     /\ changes' = changes \o appended
     /\ last' = Other
     /\ UNCHANGED <<listeners, now, requests, calls, userVars, treeVars>>

\* IndexedDBResource.put(obj)
Put(obj) ==
  \E fresh \in Keys :
    LocalWrite(TablePut(table, PreparePut(obj, fresh)))

\* IndexedDBResource.update(id, changes)
Update(id, ch) ==
  LocalWrite(TableUpdate(table, id, CleanNew(ch)))

\* IndexedDBResource.delete(id)
Delete(id) ==
  LocalWrite(TableDelete(table, id))

\* Resource.where(params)
Where(params) ==
  LET objs == IndexedDBWhere(params, table)
      r == Len(requests) + 1
      c == Len(calls) + 1
  IN /\ Len(calls) < MaxCalls
     /\ IF Len(objs) = 0
        THEN /\ requests' = Append(requests, Request("collection", params, 0, c))
             /\ calls' = Append(calls, Call("where", "pending", objs, <<>>, r))
        ELSE IF objectsAreStale(objs, now)
        THEN /\ requests' = Append(requests, Request("collection", params, 0, 0))
             /\ calls' = Append(calls, Call("where", "resolved", objs, objs, r))
        ELSE /\ requests' = requests
             /\ calls' = Append(calls, Call("where", "resolved", objs, objs, 0))
     /\ last' = Did("where", params, objs, now)
     /\ UNCHANGED <<listeners, table, changes, now, userVars, treeVars>>

\* Resource.get(id)
Get(id) ==
  LET r == Len(requests) + 1
      c == Len(calls) + 1
  IN /\ Len(calls) < MaxCalls
     /\ IF id \in DOMAIN table
        THEN /\ requests' = requests
             /\ calls' = Append(calls, Call("get", "resolved", <<table[id]>>,
                                             <<table[id]>>, 0))
        ELSE /\ requests' = Append(requests, Request("model", NoParams, id, c))
             /\ calls' = Append(calls, Call("get", "pending", <<>>, <<>>, r))
     /\ last' = Did("get", id, IF id \in DOMAIN table THEN <<table[id]>> ELSE <<>>, now)
     /\ UNCHANGED <<listeners, table, changes, now, userVars, treeVars>>

\* client.get(...) resolves: the response is taken, with now = Date.now()
Respond(r, data) ==
  /\ requests[r].phase = "posted"
  /\ requests' = [requests EXCEPT ![r].phase = "responded",
                                  ![r].data = data, ![r].at = now]
  /\ last' = Other
  /\ UNCHANGED <<listeners, table, changes, now, calls, userVars, treeVars>>

RespondCollection(r) ==
  /\ r \in 1..Len(requests)
  /\ requests[r].kind = "collection"
  /\ \E resp \in Responses : Respond(r, ResponseData(resp))

RespondModel(r) ==
  /\ r \in 1..Len(requests)
  /\ requests[r].kind = "model"
  /\ Respond(r, <<[f \in {"id", "x"} |->
                    IF f = "id" THEN requests[r].id ELSE ServerX]>>)

\* Settle that leaves the promise pending when the response is a failure
SettleSuccessOnly(r, status, result, err) ==
  IF requests[r].call = 0 \/ status = "rejected" THEN calls' = calls
  ELSE calls' = [calls EXCEPT ![requests[r].call].status = status,
                              ![requests[r].call].result = result,
                              ![requests[r].call].err = err]

\* the message handler of makeRequest: the promise of the request settles;
\* a request whose promise nobody holds (call = 0) settles unobserved
Settle(r, status, result, err) ==
  IF requests[r].call = 0 THEN calls' = calls
  ELSE calls' = [calls EXCEPT ![requests[r].call].status = status,
                              ![requests[r].call].result = result,
                              ![requests[r].call].err = err]

\* client.get(...) rejects: the request is answered with status FAILURE
RequestFails(r) ==
  /\ r \in 1..Len(requests)
  /\ requests[r].phase = "posted"
  /\ requests' = [requests EXCEPT ![r].phase = "failed", ![r].err = FetchError]
  /\ Settle(r, "rejected", <<>>, FetchError)
  /\ last' = Did("requestFails", r, <<>>, now)
  /\ UNCHANGED <<listeners, table, changes, now, userVars, treeVars>>

\* the transaction of Resource.fetchCollection, then the SUCCESS response
FetchCollection(r) ==
  /\ r \in 1..Len(requests)
  /\ requests[r].kind = "collection"
  /\ requests[r].phase = "responded"
  /\ LET q == requests[r]
         newTable == FetchCollectionTable(table, q.data, q.params, q.at, changes)
         appended == TrackTable(FetchSource, TRUE, TABLE, table, newTable)
         result == FetchItemData(q.data, q.params, q.at, changes)
     IN /\ Len(changes) + Len(appended) <= MaxChanges + 2 * Cardinality(Keys)
        /\ table' = newTable
        /\ changes' = changes \o appended
        /\ requests' = [requests EXCEPT ![r].phase = "done", ![r].data = <<>>]
        /\ last' = Did("fetchCollection", q.data, result, q.at)
        /\ Settle(r, "resolved", result, "")
  /\ UNCHANGED <<listeners, now, userVars, treeVars>>

\* the transaction of Resource.fetchModel, then the SUCCESS response
FetchModel(r) ==
  /\ r \in 1..Len(requests)
  /\ requests[r].kind = "model"
  /\ requests[r].phase = "responded"
  /\ LET q == requests[r]
         newTable == FetchModelTable(table, q.data[1], q.at)
         appended == TrackTable(FetchSource, TRUE, TABLE, table, newTable)
         result == <<Assign(q.data[1], [f \in {LAST_FETCHED} |-> q.at])>>
     IN /\ Len(changes) + Len(appended) <= MaxChanges + 2 * Cardinality(Keys)
        /\ table' = newTable
        /\ changes' = changes \o appended
        /\ requests' = [requests EXCEPT ![r].phase = "done", ![r].data = <<>>]
        /\ last' = Did("fetchModel", q.data, result, q.at)
        /\ Settle(r, "resolved", result, "")
  /\ UNCHANGED <<listeners, now, userVars, treeVars>>

\* time passes
Tick ==
  /\ now + TickStep(now) < REFRESH_INTERVAL * 1000 + MaxTicks
  /\ now' = now + TickStep(now)
  /\ last' = Other
  /\ UNCHANGED <<listeners, table, changes, requests, calls, userVars, treeVars>>

\* the external sync process clears the oldest change record after replay
SyncDrain ==
  /\ Len(changes) > 0
  /\ changes' = Tail(changes)
  /\ last' = Other
  /\ UNCHANGED <<listeners, table, now, requests, calls, userVars, treeVars>>

\* the other tables of a new session
OthersInit ==
  /\ listeners = {}
  /\ users = NoObj
  /\ editors = NoObj
  /\ viewers = NoObj
  /\ tree = InitialTree
  /\ tx = TxIdle

FetchInit ==
  /\ table = NoObj
  /\ changes = <<>>
  /\ now = 0
  /\ requests = <<>>
  /\ calls = <<>>
  /\ last = Other
  /\ OthersInit

\* another execution context sharing the store posts FETCH_COLLECTION
RemoteRequest(params) ==
  /\ Len(requests) < MaxRequests
  /\ requests' = Append(requests, Request("collection", params, 0, 0))
  /\ last' = Other
  /\ UNCHANGED <<listeners, table, changes, now, calls, userVars, treeVars>>

----------------------------------------------------------------------------
(* ChannelUser.fetchCollection *)

\* client.get(...) resolves with itemData and the transaction over the
\* three tables runs
ChannelUserFetchCollection(channel, itemData) ==
  LET newUsers == UserBulkPut(users, userDataOf(itemData, now))
      newEditors == M2MBulkPut(editors, editorM2MOf(itemData, channel, now))
      newViewers == M2MBulkPut(viewers, viewerM2MOf(itemData, channel, now))
      appended == TrackTable(FetchSource, FALSE, EDITOR_M2M, editors, newEditors)
                  \o TrackTable(FetchSource, FALSE, VIEWER_M2M, viewers, newViewers)
                  \o TrackTable(FetchSource, TRUE, USER, users, newUsers)
  IN /\ users' = newUsers
     /\ editors' = newEditors
     /\ viewers' = newViewers
     /\ changes' = changes \o appended
     /\ last' = [Did("channelUserFetch", itemData, itemData, now)
                   EXCEPT !.table = <<users, editors, viewers>>]
     /\ UNCHANGED <<listeners, table, now, requests, calls, treeVars>>

----------------------------------------------------------------------------
(* The Tree resource: move and copy, each inside treeTransaction *)

Settled == tx.phase \in {"idle", "committed", "aborted", "finished"}

\* this.transaction('rw', () => ...) is entered: the transaction works on
\* its own copy of the tables it declares
TreeBegin(op, id, target, position, deep, changeType, carry) ==
  tx' = [phase |-> "open", ops |-> carry.ops, queue |-> carry.queue, op |-> op,
         changeType |-> changeType, results |-> carry.results,
         rejected |-> carry.rejected, call |-> carry.call,
         id |-> id, target |-> target, position |-> position, deep |-> deep,
         tree |-> tree, changes |-> changes, tree0 |-> tree,
         changes0 |-> changes, data |-> NoObj, change |-> NoChange]

\* a call of Tree.move or Tree.copy from outside: nothing is queued, no
\* result has been collected, no promise has been rejected
TopLevel(id, target, position) ==
  [queue |-> <<>>, ops |-> tx.ops + 1, results |-> <<>>, rejected |-> FALSE,
   call |-> [id |-> id, target |-> target, position |-> position, tree |-> tree]]

\* a call of Tree.copy from the recursion of a deep copy
Recursive ==
  [queue |-> Tail(tx.queue), ops |-> tx.ops, results |-> tx.results,
   rejected |-> tx.rejected, call |-> tx.call]

\* what a caller may pass as position: the valid positions and one other
Positions == validPositions \cup {"inside"}

\* validPositions.has(position) that lets every position pass
PositionAny(position) == TRUE

\* validPositions.has(position)
PositionValid(position) == position \in validPositions

\* the record of a call that threw before it did anything
Threw(name, position) ==
  [op |-> "throws", input |-> <<name, position>>, result |-> "TypeError",
   at |-> now, table |-> table, changes |-> changes, tree |-> tree, tx |-> tx]

\* Tree.move(id, target, position)
TreeMove(id, target, position) ==
  /\ Settled /\ tx.queue = <<>>
  /\ IF PositionValid(position)
     THEN /\ tx.ops < MaxTreeOps
          /\ TreeBegin("move", id, target, position, FALSE, MOVED,
                       TopLevel(id, target, position))
          /\ last' = last
     ELSE /\ tx' = tx
          /\ last' = Threw("Tree.move", position)
  /\ UNCHANGED <<listeners, table, changes, now, requests, calls, userVars, tree>>

\* Tree.copy(id, target, position, deep, changeType)
TreeCopyAs(id, target, position, deep, changeType, name) ==
  /\ Settled /\ tx.queue = <<>>
  /\ IF PositionValid(position)
     THEN /\ tx.ops < MaxTreeOps
          /\ TreeBegin("copy", id, target, position, deep, changeType,
                       TopLevel(id, target, position))
          /\ last' = last
     ELSE /\ tx' = tx
          /\ last' = Threw(name, position)
  /\ UNCHANGED <<listeners, table, changes, now, requests, calls, userVars, tree>>

\* Tree.copy(id, target, position, deep)
TreeCopy(id, target, position, deep) ==
  TreeCopyAs(id, target, position, deep, COPIED, "Tree.copy")

\* ContentNode.copy(id, target, position, deep): the check of the position
\* and the call of Tree.copy with the change type MOVED
ContentNodeCopy(id, target, position, deep) ==
  TreeCopyAs(id, target, position, deep, MOVED, "ContentNode.copy")

\* the recursion of a deep Tree.copy: the next child is copied under the
\* copy of its parent
TreeCopyChild ==
  /\ Settled /\ tx.queue # <<>>
  /\ TreeBegin("copy", Head(tx.queue).id, Head(tx.queue).target, LAST_CHILD,
               TRUE, tx.changeType, Recursive)
  /\ UNCHANGED <<listeners, table, changes, now, requests, calls, last, userVars, tree>>

\* uuid4(): an id no node has
FreshIds == NodeIds \ DOMAIN tx.tree

\* tableMove / tableCopy up to the write of the node
TreeWrite ==
  /\ tx.phase = "open"
  /\ tx.op = "copy" => FreshIds # {}
  /\ LET newId == CHOOSE n \in FreshIds : \A m \in FreshIds : n <= m
         r == IF tx.op = "move"
              THEN tableMove(tx.tree, tx.id, tx.target, tx.position)
              ELSE tableCopy(tx.tree, tx.id, tx.target, tx.position, tx.changeType,
                             newId)
     IN tx' = IF r.ok
              THEN [tx EXCEPT !.phase = "written", !.tree = r.tree,
                              !.data = r.data, !.change = r.change]
              ELSE [tx EXCEPT !.phase = "failed"]
  /\ UNCHANGED <<listeners, table, changes, now, requests, calls, last, userVars, tree>>

\* db[CHANGES_TABLE].put(...) of tableMove / tableCopy
TreeLog ==
  /\ tx.phase = "written"
  /\ tx' = [tx EXCEPT !.phase = "logged",
                      !.changes = Append(tx.changes, tx.change)]
  /\ UNCHANGED <<listeners, table, changes, now, requests, calls, last, userVars, tree>>

\* children copied under the node they are already under
CopyChildrenInPlace(tr, id, newParent) ==
  LET kids == childrenOf(tr, id)
  IN [i \in 1..Len(kids) |-> [id |-> kids[i]["id"], target |-> id]]

\* the children a deep copy goes on with: the children of the source node,
\* read after the copy of the node has been committed
CopyChildren(tr, id, newParent) ==
  LET kids == childrenOf(tr, id)
  IN [i \in 1..Len(kids) |-> [id |-> kids[i]["id"], target |-> newParent]]

\* the transaction completes: its writes become visible together
TreeCommit ==
  /\ tx.phase = "logged"
  /\ tree' = tx.tree
  /\ changes' = tx.changes
  /\ tx' = [tx EXCEPT !.phase = "committed",
                      !.results = IF tx.op = "copy"
                                  THEN Append(tx.results, tx.data)
                                  ELSE tx.results,
                      !.queue = IF tx.op = "copy" /\ tx.deep
                                THEN tx.queue \o CopyChildren(tx.tree, tx.id, tx.data["id"])
                                ELSE tx.queue]
  /\ UNCHANGED <<listeners, table, now, requests, calls, last, userVars>>

\* the transaction aborts: a step of its body was rejected, or the store
\* failed a write
TreeAbort ==
  /\ tx.phase \in {"open", "written", "logged", "failed"}
  /\ tree' = Rollback(tree, tx.tree)
  /\ changes' = Rollback(changes, tx.changes)
  /\ tx' = [tx EXCEPT !.phase = "aborted", !.rejected = TRUE]
  /\ UNCHANGED <<listeners, table, now, requests, calls, last, userVars>>

TreeNext ==
  \/ \E id \in NodeIds, target \in NodeIds, position \in validPositions :
       TreeMove(id, target, position)
  \/ \E id \in NodeIds, target \in NodeIds, position \in validPositions,
        deep \in BOOLEAN : TreeCopy(id, target, position, deep)
  \/ TreeCopyChild
  \/ TreeWrite
  \/ TreeLog
  \/ TreeCommit
  \/ TreeAbort

\* moves and copies of tree nodes
SpecTree == FetchInit /\ [][TreeNext]_vars

\* Tree.move called once more with the arguments of the move that has just
\* committed
TreeMoveRepeated ==
  /\ tx.phase = "committed" /\ tx.op = "move" /\ tx.queue = <<>>
  /\ tx.ops = MaxTreeOps
  /\ TreeBegin("move", tx.id, tx.target, tx.position, FALSE, MOVED,
               TopLevel(tx.id, tx.target, tx.position))
  /\ UNCHANGED <<listeners, table, changes, now, requests, calls, last, userVars, tree>>

RepeatNext ==
  \/ \E id \in NodeIds, target \in NodeIds, position \in validPositions :
       TreeMove(id, target, position)
  \/ TreeMoveRepeated
  \/ TreeWrite
  \/ TreeLog
  \/ TreeCommit
  \/ TreeAbort

\* moves of tree nodes, each possibly called a second time
SpecRepeat == FetchInit /\ [][RepeatNext]_vars

----------------------------------------------------------------------------
(* Tree.fetchCollection: the collection fetch of the tree resource *)

\* collectedChanges[MOVED][k]: the latest pending MOVED record of node k
CollectedMove(chs, k) ==
  LET ms == SelectSeq(ChangesFor(chs, TREE, k), LAMBDA c : c.type = MOVED)
  IN IF Len(ms) = 0 THEN NoChange ELSE ms[Len(ms)]

\* Object.values(collectedChanges[MOVED] || {}) for the fetched items
CollectedMoves(chs, itemData) ==
  LET all == [i \in 1..Len(itemData) |-> CollectedMove(chs, itemData[i]["id"])]
  IN SelectSeq(all, LAMBDA c : c.type = MOVED)

\* the items that are put: the fetched items with the time of the fetch and
\* the pending CREATED and UPDATED changes laid over, without the deleted
TreeFetchData(itemData, t, chs) ==
  LET datum(i) ==
        LET d1 == Assign(itemData[i], [f \in {LAST_FETCHED} |-> t])
            eff == EffectiveChange(chs, TREE, d1["id"])
            d2 == IF eff.type = CREATED THEN Assign(d1, eff.obj) ELSE d1
        IN IF eff.type = UPDATED THEN Assign(d2, eff.mods) ELSE d2
      data == [i \in 1..Len(itemData) |-> datum(i)]
  IN SelectSeq(data, LAMBDA d : ~Collected(chs, TREE, DELETED, d["id"]))

\* applyChanges(changes) of MOVED records: each is replayed through
\* tableMove, one after the other; st is the outcome so far
RECURSIVE applyChanges(_, _, _)
applyChanges(st, moves, i) ==
  IF i > Len(moves) \/ ~st.ok THEN st
  ELSE LET c == moves[i]
           r == tableMove(st.tree, c.key, c.mods.target, c.mods.position)
       IN applyChanges([ok |-> r.ok, tree |-> r.tree,
                        changes |-> IF r.ok THEN Append(st.changes, r.change)
                                    ELSE st.changes],
                       moves, i + 1)

\* the moves replayed first and the fetched items put over their result
TreeFetchedReplayFirst(tr, chs, itemData, t) ==
  LET st == applyChanges([ok |-> TRUE, tree |-> tr, changes |-> chs],
                         CollectedMoves(chs, itemData), 1)
      written == TableBulkPut(st.tree, TreeFetchData(itemData, t, chs), 1)
  IN [ok |-> st.ok, tree |-> written, changes |-> st.changes,
      written |-> written]

\* the transaction of fetchCollection on the tree table: bulkPut, then the
\* replay of the pending moves
TreeFetched(tr, chs, itemData, t) ==
  LET written == TableBulkPut(tr, TreeFetchData(itemData, t, chs), 1)
      st == applyChanges([ok |-> TRUE, tree |-> written, changes |-> chs],
                         CollectedMoves(chs, itemData), 1)
  IN [ok |-> st.ok, tree |-> st.tree, changes |-> st.changes,
      written |-> written]

\* the nodes the server may answer with for node n
ServerNodes(n) ==
  {Node(n, parent, k * LftUnit, IF parent = 1 THEN 1 ELSE 2) :
     parent \in {1, 2, 3} \ {n}, k \in {1, 2}}

\* the answers of the server: items for some of the nodes 2 and 3, which
\* form a forest with distinct lft among siblings
TreeItemData ==
  LET one == {<<a>> : a \in ServerNodes(2) \cup ServerNodes(3)}
      two == {<<a, b>> : a \in ServerNodes(2), b \in ServerNodes(3)}
  IN one \cup {q \in two : /\ ~(q[1]["parent"] = 3 /\ q[2]["parent"] = 2)
                            /\ (q[1]["parent"] = q[2]["parent"]
                                  => q[1]["lft"] # q[2]["lft"])}

\* Tree.fetchCollection(params) from the response on: the transaction over
\* the tree table and the change log commits, or it aborts when a replayed
\* move is rejected
TreeFetchCollection(itemData) ==
  /\ Settled /\ tx.queue = <<>>
  /\ last.op # "treeFetch"
  /\ LET r == TreeFetched(tree, changes, itemData, now)
     IN /\ Len(r.changes) <= MaxChanges + MaxTreeOps
        /\ tree' = IF r.ok THEN r.tree ELSE tree
        /\ changes' = IF r.ok THEN r.changes ELSE changes
        /\ last' = [op |-> "treeFetch", input |-> itemData, result |-> r,
                    at |-> now, tree |-> tree, changes |-> changes]
  /\ UNCHANGED <<listeners, table, now, requests, calls, userVars, tx>>

TreeFetchNext ==
  \/ \E id \in {2, 3}, target \in {1, 2, 3}, position \in validPositions :
       TreeMove(id, target, position)
  \/ TreeWrite
  \/ TreeLog
  \/ TreeCommit
  \/ TreeAbort
  \/ \E itemData \in TreeItemData : TreeFetchCollection(itemData)

\* local moves and one collection fetch of the tree
SpecTreeFetch == FetchInit /\ [][TreeFetchNext]_vars

PositionsNext ==
  \/ \E id \in {1, 2}, target \in {3}, position \in Positions :
       TreeMove(id, target, position)
  \/ \E id \in {1, 2}, target \in {3}, position \in Positions,
        deep \in BOOLEAN : TreeCopy(id, target, position, deep)
  \/ \E id \in {1, 2}, target \in {3}, position \in Positions,
        deep \in BOOLEAN : ContentNodeCopy(id, target, position, deep)
  \/ TreeCopyChild
  \/ TreeWrite
  \/ TreeLog
  \/ TreeCommit
  \/ TreeAbort

\* moves and copies called with valid and invalid positions
SpecPositions == FetchInit /\ [][PositionsNext]_vars

----------------------------------------------------------------------------
(* ContentNode.copy: the content nodes of the tree nodes Tree.copy made *)

\* promiseChunk(objs, size, ...): objs cut into consecutive pieces
RECURSIVE ChunksOf(_, _)
ChunksOf(objs, size) ==
  IF Len(objs) = 0 THEN <<>>
  ELSE IF Len(objs) <= size THEN <<objs>>
  ELSE <<SubSeq(objs, 1, size)>> \o ChunksOf(SubSeq(objs, size + 1, Len(objs)), size)

\* constantStrings.$tr('firstCopy', { title }): titles are lists of words
firstCopy(title) == <<"firstCopy">> \o title

\* constantStrings.$tr('nthCopy', { title, n })
nthCopy(title, n) == <<"nthCopy", ToString(n)>> \o title

\* countMap[parent][source_id]: the nodes under parent with that source_id
countMap(tr, parent, source_id) ==
  Cardinality({n \in DOMAIN tr : /\ tr[n]["parent"] = parent
                                 /\ tr[n]["source_id"] = source_id})

\* sourceNodeMap[source_id]: the last of treeNodes with that source_id
sourceNodeMap(treeNodes, source_id) ==
  LET I == {i \in 1..Len(treeNodes) : treeNodes[i]["source_id"] = source_id}
  IN treeNodes[CHOOSE i \in I : \A j \in I : j <= i]

\* Object.keys(sourceNodeMap): the source ids in the order they first occur
sourceKeys(treeNodes) ==
  LET firsts == {i \in 1..Len(treeNodes) :
                   \A j \in 1..(i - 1) :
                     treeNodes[j]["source_id"] # treeNodes[i]["source_id"]}
      picked == SelectSeqIdx(treeNodes, firsts)
  IN [i \in 1..Len(picked) |-> picked[i]["source_id"]]

\* the title of the copy: that of the source, marked as a copy when the copy
\* is a sibling of its source
copyTitle(tr, treeNode, sourceTreeNode, title) ==
  IF treeNode["parent"] = sourceTreeNode["parent"]
  THEN IF countMap(tr, treeNode["parent"], treeNode["source_id"]) <= 2
       THEN firstCopy(title)
       ELSE nthCopy(title, countMap(tr, treeNode["parent"], treeNode["source_id"]))
  ELSE title

\* the updater ContentNode.copy hands to bulkCopy, for a sourceNode whose
\* tree node is among sourceTreeNodes
copyUpdater(tr, treeNodes, sourceNode) ==
  LET treeNode == sourceNodeMap(treeNodes, sourceNode["id"])
      sourceTreeNode == tr[treeNode["source_id"]]
      title == copyTitle(tr, treeNode, sourceTreeNode, sourceNode["title"])
  IN [f \in {"id", "channel_id", "source_channel_id", "title", "files",
             "assessment_items", "prerequisite"} |->
        IF f = "id" THEN treeNode["id"]
        ELSE IF f = "channel_id" THEN treeNode["channel_id"]
        ELSE IF f = "source_channel_id" THEN sourceTreeNode["channel_id"]
        ELSE IF f = "title" THEN title
        ELSE <<>>]

\* the chunks of one bulkCopy of ContentNode.copy from chunk b on: chunk is
\* the source ids whose tree nodes were read; the updater throws for a
\* sourceNode outside them, and then no later chunk is copied
RECURSIVE copyChunks(_, _, _, _, _, _)
copyChunks(st, tr, treeNodes, chunk, chunks, b) ==
  IF b > Len(chunks) \/ ~st.ok THEN st
  ELSE LET objs == chunks[b]
           known == \A i \in 1..Len(objs) : objs[i]["id"] \in SeqRange(chunk)
           mods(i) == copyUpdater(tr, treeNodes, objs[i])
           copy(i) == Assign(PrepareCopy(objs[i], 0, TRUE), mods(i))
           change(i) == Change(copy(i)["id"], COPIED, NoObj, mods(i), NoObj,
                               objs[i]["id"], CLIENTID, TABLE)
       IN IF ~known THEN [st EXCEPT !.ok = FALSE]
          ELSE copyChunks(
                 [ok |-> TRUE,
                  changes |-> st.changes \o [i \in 1..Len(objs) |-> change(i)],
                  table |-> TableBulkPut(st.table,
                                         [i \in 1..Len(objs) |-> copy(i)], 1)],
                 tr, treeNodes, chunk, chunks, b + 1)

\* this.bulkCopy({ id__in: sourceNodeIds }, updater) for each chunk of the
\* keys of sourceNodeMap, from chunk k on
RECURSIVE copySources(_, _, _, _, _)
copySources(st, tr, treeNodes, keyChunks, k) ==
  IF k > Len(keyChunks) \/ ~st.ok THEN st
  ELSE LET ids == {treeNodes[i]["source_id"] : i \in 1..Len(treeNodes)}
           objs == SortedSeq(ids \cap DOMAIN st.table)
           found == [i \in 1..Len(objs) |-> st.table[objs[i]]]
       IN copySources(copyChunks(st, tr, treeNodes, keyChunks[k],
                                 ChunksOf(found, ChunkSize), 1),
                      tr, treeNodes, keyChunks, k + 1)

\* the body of promiseChunk(treeNodes, 50, ...) for each chunk of tree nodes,
\* from chunk c on
RECURSIVE copyNodes(_, _, _, _)
copyNodes(st, tr, nodeChunks, c) ==
  IF c > Len(nodeChunks) \/ ~st.ok THEN st
  ELSE copyNodes(copySources(st, tr, nodeChunks[c],
                             ChunksOf(sourceKeys(nodeChunks[c]), SourceChunk), 1),
                 tr, nodeChunks, c + 1)

\* Tree.copy has put the bare content nodes of its results and resolves with
\* them for ContentNode.copy, which copies the content nodes of the sources;
\* table holds the content nodes
ContentNodeCopyNodes ==
  /\ tx.phase = "committed" /\ tx.op = "copy" /\ tx.changeType = MOVED
  /\ tx.queue = <<>> /\ ~tx.rejected
  /\ \A i \in 1..Len(tx.results) : tx.results[i]["source_id"] \in DOMAIN table
  /\ LET bare == TableBulkPut(table,
                   [i \in 1..Len(tx.results) |->
                      [f \in {"id"} |-> tx.results[i]["id"]]], 1)
         r == copyNodes([ok |-> TRUE, changes |-> changes, table |-> bare],
                        tree, ChunksOf(tx.results, TreeNodeChunk), 1)
     IN /\ table' = r.table
        /\ changes' = r.changes
        /\ last' = [Did("contentNodeCopy", tx.results,
                        IF r.ok THEN "resolved" ELSE "TypeError", now)
                      EXCEPT !.table = r.table]
  /\ tx' = [tx EXCEPT !.phase = "finished"]
  /\ UNCHANGED <<listeners, now, requests, calls, userVars, tree>>

\* ContentNode.copy called once more with the arguments of the call that
\* has just settled
ContentNodeCopyAgain ==
  /\ tx.phase = "finished"
  /\ tx.ops < MaxTreeOps + MaxRepeats
  /\ TreeBegin("copy", tx.call.id, tx.call.target, tx.call.position, tx.deep,
               MOVED, TopLevel(tx.call.id, tx.call.target, tx.call.position))
  /\ UNCHANGED <<listeners, table, changes, now, requests, calls, last, userVars, tree>>

\* the ids of the nodes a session that copies subtrees starts with
DeepIds == (MaxNodes + 1)..(MaxNodes + 6)

\* a root with the subtree a -> {b -> {d}, c} and a second child t
DeepTree ==
  LET r == MaxNodes + 1
      a == MaxNodes + 2
      b == MaxNodes + 3
      c == MaxNodes + 4
      d == MaxNodes + 5
  IN [n \in DeepIds |->
        IF n = r THEN Node(r, Null, LftUnit, 0)
        ELSE IF n = a THEN Node(a, r, LftUnit, 1)
        ELSE IF n = b THEN Node(b, a, LftUnit, 2)
        ELSE IF n = c THEN Node(c, a, 2 * LftUnit, 2)
        ELSE IF n = d THEN Node(d, b, LftUnit, 3)
        ELSE Node(n, r, 2 * LftUnit, 1)]

DeepInit ==
  /\ listeners = {}
  /\ table = NoObj
  /\ changes = <<>>
  /\ now = 0
  /\ requests = <<>>
  /\ calls = <<>>
  /\ last = Other
  /\ users = NoObj
  /\ editors = NoObj
  /\ viewers = NoObj
  /\ tree = DeepTree
  /\ tx = TxIdle

\* the nodes the session copies (a and b) and the targets it names (the
\* root, d inside both subtrees, and t outside them)
DeepSources == {MaxNodes + 2, MaxNodes + 3}
DeepTargets == {MaxNodes + 1, MaxNodes + 5, MaxNodes + 6}

DeepNext ==
  \/ \E id \in DeepSources, target \in DeepTargets, position \in validPositions,
        deep \in BOOLEAN : TreeCopy(id, target, position, deep)
  \/ TreeCopyChild
  \/ TreeWrite
  \/ TreeLog
  \/ TreeCommit
  \/ TreeAbort

\* copies of subtrees of a tree three levels deep
SpecDeep == DeepInit /\ [][DeepNext]_vars

\* the content node of tree node n
ContentNodeOf(n) ==
  [f \in {"id", "title"} |-> IF f = "id" THEN n ELSE <<ToString(n)>>]

\* the session of SpecDeep with a content node for every node of the tree
NodesInit ==
  /\ listeners = {}
  /\ table = [n \in DeepIds |-> ContentNodeOf(n)]
  /\ changes = <<>>
  /\ now = 0
  /\ requests = <<>>
  /\ calls = <<>>
  /\ last = Other
  /\ users = NoObj
  /\ editors = NoObj
  /\ viewers = NoObj
  /\ tree = DeepTree
  /\ tx = TxIdle

NodesNext ==
  \/ \E id \in DeepSources, target \in DeepTargets, position \in validPositions,
        deep \in BOOLEAN : ContentNodeCopy(id, target, position, deep)
  \/ ContentNodeCopyAgain
  \/ ContentNodeCopyNodes
  \/ TreeCopyChild
  \/ TreeWrite
  \/ TreeLog
  \/ TreeCommit
  \/ TreeAbort

\* copies of content nodes with their tree nodes
SpecNodes == NodesInit /\ [][NodesNext]_vars

\* the list a deep copy resolves with: the copy of the node, then the lists
\* of its children's copies in the order of the children
RECURSIVE ResultsOf(_, _)
ResultsOf(results, i) ==
  LET kids == {j \in (i + 1)..Len(results) :
                 results[j]["parent"] = results[i]["id"]}
      Cat[k \in i..Len(results)] ==
        IF k = i THEN <<>>
        ELSE Cat[k - 1] \o (IF k \in kids THEN ResultsOf(results, k) ELSE <<>>)
  IN <<results[i]>> \o Cat[Len(results)]

\* another execution context sharing the store posts FETCH_MODEL
RemoteModelRequest(id) ==
  /\ Len(requests) < MaxRequests
  /\ requests' = Append(requests, Request("model", NoParams, id, 0))
  /\ last' = Other
  /\ UNCHANGED <<listeners, table, changes, now, calls, userVars, treeVars>>

\* a session that starts with an empty store, or with one object created
\* locally whose CREATED record is still waiting for the sync
SourcesInit ==
  /\ table \in {NoObj} \cup {Upsert(NoObj, obj["id"], obj) : obj \in InputObjs}
  /\ changes = TrackTable(TransactionSource, TRUE, TABLE, NoObj, table)
  /\ now = 0
  /\ requests = <<>>
  /\ calls = <<>>
  /\ last = Other
  /\ OthersInit

SourcesNext ==
  \/ \E id \in Keys : RemoteModelRequest(id)
  \/ \E params \in WhereParams : RemoteRequest(params)
  \/ \E r \in 1..MaxRequests : RespondCollection(r)
  \/ \E r \in 1..MaxRequests : RespondModel(r)
  \/ \E r \in 1..MaxRequests : FetchCollection(r)
  \/ \E r \in 1..MaxRequests : FetchModel(r)
  \/ \E channel \in ChannelIds, itemData \in ChannelUserResponses :
       ChannelUserFetchCollection(channel, itemData)

\* local writes and the three kinds of remote fetch
SpecSources == SourcesInit /\ [][SourcesNext]_vars

----------------------------------------------------------------------------
(* Writes of the flat resource with arguments that carry the new marker *)

Marked(obj) == Assign(obj, [f \in {NEW_OBJECT} |-> TRUE])

\* createObj(obj)
createObj(obj, fresh) == Marked(PreparePut(obj, fresh))

\* objects handed to put and bulkPut: plain, or as createObj returns them
StoreObjs == InputObjs \cup {createObj(obj, obj["id"]) : obj \in InputObjs}

\* change sets handed to update, modifyByIds and Channel.update, and
\* results of the updater of copy and bulkCopy
StoreMods == InputMods \cup {Marked(ch) : ch \in InputMods}

\* the content_defaults argument of Channel.update
ContentDefaults == {NoObj, [f \in {"language"} |-> 1]}

\* an object of the table with a key no stored object has, or none
FreshKeys == Keys \ DOMAIN table

\* the change record of a copy has no source when Resource.copy writes it
NoSource == "undefined"

\* IndexedDBResource.bulkPut(objs): objs.map(this._preparePut) calls
\* _preparePut without a receiver, which throws for the first element
BulkPut(objs) ==
  /\ last' = Did("bulkPut", objs,
                 IF Len(objs) = 0 THEN "resolved" ELSE "TypeError", now)
  /\ UNCHANGED <<listeners, table, changes, now, requests, calls, userVars, treeVars>>

\* table.where(idField).anyOf(ids).modify(changes)
RECURSIVE TableModify(_, _, _)
TableModify(tbl, ids, ch) ==
  IF ids = {} THEN tbl
  ELSE LET id == CHOOSE a \in ids : \A b \in ids : a <= b
       IN TableModify(TableUpdate(tbl, id, ch), ids \ {id}, ch)

\* IndexedDBResource.modifyByIds(ids, changes)
ModifyByIds(ids, ch) ==
  LocalWrite(TableModify(table, ids, CleanNew(ch)))

\* Resource.copy(id, updater), updater(obj) giving mods
Copy(id, mods) ==
  /\ id \in DOMAIN table
  /\ FreshKeys # {}
  /\ Len(changes) < MaxChanges
  /\ \E fresh \in FreshKeys :
       LET copy == PrepareCopy(table[id], fresh, TRUE)
       IN /\ changes' = Append(changes,
                          Change(copy["id"], COPIED, NoObj, mods, NoObj, id,
                                 NoSource, TABLE))
          /\ table' = TablePut(table, Assign(copy, mods))
          /\ last' = Did("copy", id,
                         [mods |-> mods, stored |-> <<Assign(copy, mods)["id"]>>], now)
  /\ UNCHANGED <<listeners, now, requests, calls, userVars, treeVars>>

\* the copies and the change records of one chunk of bulkCopy, keys being
\* the ids uuid4() gives in turn
bulkCopyValues(objs, mods, keys) ==
  [i \in 1..Len(objs) |->
     LET copy == Assign(PrepareCopy(objs[i], keys[i], TRUE), mods)
     IN [copy |-> copy,
         change |-> Change(copy["id"], COPIED, NoObj, mods, NoObj,
                           objs[i]["id"], CLIENTID, TABLE)]]

\* Resource.bulkCopy(query, updater) with an array of objects as query
BulkCopy(ids, mods) ==
  LET objs == [i \in 1..Len(ids) |-> table[ids[i]]]
      keys == SortedSeq(FreshKeys)
  IN /\ SeqRange(ids) \subseteq DOMAIN table
     /\ Len(ids) <= Len(keys)
     /\ Len(changes) + Len(ids) <= MaxChanges
     /\ LET values == bulkCopyValues(objs, mods, keys)
        IN /\ changes' = changes \o [i \in 1..Len(values) |-> values[i].change]
           /\ table' = TableBulkPut(table, [i \in 1..Len(values) |-> values[i].copy], 1)
     /\ last' = Did("bulkCopy", ids,
                    [mods |-> mods,
                     stored |-> [i \in 1..Len(ids) |->
                                   bulkCopyValues(objs, mods, keys)[i].copy["id"]]], now)
     /\ UNCHANGED <<listeners, now, requests, calls, userVars, treeVars>>

\* the modify callback of Channel.update
ChannelModify(channel, content_defaults, ch) ==
  LET merged ==
        IF DOMAIN content_defaults # {}
        THEN Assign(channel,
               [f \in {"content_defaults"} |->
                  Assign(IF Has(channel, "content_defaults")
                         THEN channel["content_defaults"] ELSE NoObj,
                         content_defaults)])
        ELSE channel
  IN Assign(merged, ch)

\* Channel.update(id, { content_defaults, ...changes })
ChannelUpdate(id, content_defaults, ch) ==
  LocalWrite(IF id \in DOMAIN table
             THEN [table EXCEPT ![id] = ChannelModify(@, content_defaults, ch)]
             ELSE table)

StoreNext ==
  \/ \E obj \in StoreObjs : Put(obj)
  \/ \E objs \in {<<>>} \cup {<<obj>> : obj \in StoreObjs} : BulkPut(objs)
  \/ \E id \in Keys, ch \in StoreMods : Update(id, ch)
  \/ \E ids \in SUBSET Keys, ch \in StoreMods : ModifyByIds(ids, ch)
  \/ \E id \in Keys, mods \in StoreMods : Copy(id, mods)
  \/ \E id \in Keys, mods \in StoreMods : BulkCopy(<<id>>, mods)
  \/ \E id \in Keys, cd \in ContentDefaults, ch \in StoreMods :
       ChannelUpdate(id, cd, ch)
  \/ SyncDrain

\* writes to the local store of the channel resource
SpecStore == FetchInit /\ [][StoreNext]_vars

----------------------------------------------------------------------------
(* Copies of flat resources, and the relations of users to channels *)

CREATED_RELATION == "CREATED_RELATION"
DELETED_RELATION == "DELETED_RELATION"

\* what the updater of copy and bulkCopy returns: nothing (the default {}),
\* a new value of x, or a primary key it chose itself
UpdaterMods == {NoObj} \cup InputMods \cup {[f \in {"id"} |-> k] : k \in Keys}

\* User.copy(id, updater): Resource.copy of the resource declared with
\* uuid: false, so that _prepareCopy adds no new id
UserCopy(id, mods) ==
  /\ id \in DOMAIN users
  /\ Len(changes) < MaxChanges
  /\ LET copy == PrepareCopy(users[id], id, FALSE)
         stored == Assign(copy, mods)
     IN /\ changes' = Append(changes,
                         Change(copy["id"], COPIED, NoObj, mods, NoObj, id,
                                NoSource, USER))
        /\ users' = Upsert(users, stored["id"], stored)
        /\ last' = [Did("userCopy", id,
                        [mods |-> mods, stored |-> <<stored["id"]>>], now)
                      EXCEPT !.table = users]
  /\ UNCHANGED <<listeners, table, now, requests, calls, editors, viewers, treeVars>>

\* EditorM2M.put(channel, user)
EditorPut(channel, user) ==
  /\ Len(changes) < MaxChanges
  /\ editors' = Upsert(editors, M2MKey(user, channel),
                       [f \in {"user", "channel"} |->
                          IF f = "user" THEN user ELSE channel])
  /\ changes' = Append(changes,
                   Change(0, CREATED_RELATION,
                          [f \in {"user", "channel"} |->
                             IF f = "user" THEN user ELSE channel],
                          NoObj, NoObj, 0, CLIENTID, EDITOR_M2M))
  /\ last' = Other
  /\ UNCHANGED <<listeners, table, now, requests, calls, users, viewers, treeVars>>

\* ViewerM2M.delete(channel, user)
ViewerDelete(channel, user) ==
  /\ Len(changes) < MaxChanges
  /\ viewers' = Remove(viewers, M2MKey(user, channel))
  /\ changes' = Append(changes,
                   Change(0, DELETED_RELATION,
                          [f \in {"user", "channel"} |->
                             IF f = "user" THEN user ELSE channel],
                          NoObj, NoObj, 0, CLIENTID, VIEWER_M2M))
  /\ last' = Other
  /\ UNCHANGED <<listeners, table, now, requests, calls, users, editors, treeVars>>

\* the relation of user and channel stored in the M2M tables and logged
Relation(channel, user) ==
  [f \in {"user", "channel"} |-> IF f = "user" THEN user ELSE channel]

\* ChannelUser.makeEditor(channel, user): ViewerM2M.delete(channel, user), a
\* transaction of its own, has committed
MakeEditorDelete(channel, user) ==
  /\ Settled /\ tx.queue = <<>>
  /\ Len(changes) + 1 < MaxChanges
  /\ viewers' = Remove(viewers, M2MKey(user, channel))
  /\ changes' = Append(changes,
                   Change(0, DELETED_RELATION, Relation(channel, user),
                          NoObj, NoObj, 0, CLIENTID, VIEWER_M2M))
  /\ tx' = [phase |-> "viewerDeleted", op |-> "makeEditor", ops |-> tx.ops,
            queue |-> <<>>, channel |-> channel, user |-> user,
            viewers0 |-> viewers, editors0 |-> editors, changes0 |-> changes]
  /\ last' = Other
  /\ UNCHANGED <<listeners, table, now, requests, calls, users, editors, tree>>

\* .then(() => EditorM2M.put(channel, user)): the second transaction commits
MakeEditorPut ==
  /\ tx.phase = "viewerDeleted"
  /\ editors' = Upsert(editors, M2MKey(tx.user, tx.channel),
                       Relation(tx.channel, tx.user))
  /\ changes' = Append(changes,
                   Change(0, CREATED_RELATION, Relation(tx.channel, tx.user),
                          NoObj, NoObj, 0, CLIENTID, EDITOR_M2M))
  /\ tx' = [tx EXCEPT !.phase = "committed"]
  /\ last' = Other
  /\ UNCHANGED <<listeners, table, now, requests, calls, users, viewers, tree>>

\* the transaction of EditorM2M.put aborts: makeEditor rejects
MakeEditorPutFails ==
  /\ tx.phase = "viewerDeleted"
  /\ tx' = [tx EXCEPT !.phase = "aborted"]
  /\ last' = Other
  /\ UNCHANGED <<listeners, table, changes, now, requests, calls, userVars, tree>>

MakeEditorNext ==
  \/ \E channel \in ChannelIds, user \in UserIds : MakeEditorDelete(channel, user)
  \/ MakeEditorPut
  \/ MakeEditorPutFails
  \/ Settled /\ \E channel \in ChannelIds, user \in UserIds : ViewerDelete(channel, user)
  \/ Settled /\ \E channel \in ChannelIds, user \in UserIds : EditorPut(channel, user)

\* a session whose store holds one channel and the users of a channel, as
\* earlier fetches left them
CopyInit ==
  /\ listeners = {}
  /\ table \in {Upsert(NoObj, obj["id"], obj) : obj \in InputObjs}
  /\ \E itemData \in ChannelUserResponses \ {<<>>} :
       /\ users = UserBulkPut(NoObj, userDataOf(itemData, 0))
       /\ editors = M2MBulkPut(NoObj, editorM2MOf(itemData, 1, 0))
       /\ viewers = M2MBulkPut(NoObj, viewerM2MOf(itemData, 1, 0))
  /\ changes = <<>>
  /\ now = 0
  /\ requests = <<>>
  /\ calls = <<>>
  /\ last = Other
  /\ tree = InitialTree
  /\ tx = TxIdle

\* copy, bulkCopy and User.copy with updater results drawn from M
CopyOps(M) ==
  \/ \E id \in Keys, mods \in M : Copy(id, mods)
  \/ \E id \in Keys, mods \in M : BulkCopy(<<id>>, mods)
  \/ \E id \in UserIds, mods \in M : UserCopy(id, mods)

CopyNext == CopyOps(UpdaterMods)

\* copies of stored records through Resource.copy and Resource.bulkCopy
SpecCopy == CopyInit /\ [][CopyNext]_vars

\* the relations of users and channel changed by ChannelUser.makeEditor and
\* by the M2M resources
SpecMakeEditor == CopyInit /\ [][MakeEditorNext]_vars

\* the store with the first channel and both users of the channel
MutationsInit ==
  /\ CopyInit
  /\ table = Upsert(NoObj, 1, [f \in {"id", "x"} |-> 1])
  /\ DOMAIN users = UserIds

\* every one of these transactions locks the change log, so none of them
\* runs while a transaction of the tree is open
MutationsNext ==
  \/ Settled /\ CopyOps({NoObj})
  \/ Settled /\ \E channel \in ChannelIds, user \in UserIds : EditorPut(channel, user)
  \/ Settled /\ \E channel \in ChannelIds, user \in UserIds : ViewerDelete(channel, user)
  \/ TreeNext

\* the local mutations that write their own change records
SpecMutations == MutationsInit /\ [][MutationsNext]_vars

----------------------------------------------------------------------------
(* Resource.bulkCopy, chunk by chunk: each chunk is one transaction over    *)
(* the table and the change log, which puts the change records and then    *)
(* the copies, and whose writes are visible once it completes.             *)

\* the objects of the table a bulkCopy is asked to copy
BulkIds == 1..MaxBulk

\* promiseChunk(objs, ChunkSize, ...): objs cut into consecutive pieces
RECURSIVE Chunks(_)
Chunks(objs) ==
  IF Len(objs) = 0 THEN <<>>
  ELSE IF Len(objs) <= ChunkSize THEN <<objs>>
  ELSE <<SubSeq(objs, 1, ChunkSize)>> \o Chunks(SubSeq(objs, ChunkSize + 1, Len(objs)))

\* the ids uuid4() gives in turn: keys no object of tbl has
BulkFreshKeys(tbl) == SortedSeq((1..(2 * MaxBulk + 1)) \ DOMAIN tbl)

\* bulkCopy(query, updater): the query is resolved to objs
BulkCopyBegin(ids, mods) ==
  /\ tx.phase = "idle"
  /\ SeqRange(ids) \subseteq DOMAIN table
  /\ tx' = [phase |-> "resolved", ops |-> tx.ops, queue |-> <<>>,
            op |-> "bulkCopy", mods |-> mods, done |-> 0,
            chunks |-> Chunks([i \in 1..Len(ids) |-> table[ids[i]]]),
            values |-> <<>>, table |-> table, changes |-> changes]
  /\ UNCHANGED <<listeners, table, changes, now, requests, calls, last, userVars, tree>>

\* the callback of promiseChunk for the next chunk: values is computed and
\* the transaction over the table and the change log is entered
ChunkOpen ==
  /\ tx.phase \in {"resolved", "committed"}
  /\ tx.op = "bulkCopy"
  /\ tx.chunks # <<>>
  /\ tx' = [tx EXCEPT !.phase = "open",
                      !.values = bulkCopyValues(Head(tx.chunks), tx.mods,
                                                BulkFreshKeys(table)),
                      !.table = table, !.changes = changes]
  /\ UNCHANGED <<listeners, table, changes, now, requests, calls, last, userVars, tree>>

\* db[CHANGES_TABLE].bulkPut(values[CHANGES_TABLE])
ChunkPutChanges ==
  /\ tx.phase = "open" /\ tx.op = "bulkCopy"
  /\ tx' = [tx EXCEPT !.phase = "logged",
                      !.changes = tx.changes \o
                         [i \in 1..Len(tx.values) |-> tx.values[i].change]]
  /\ UNCHANGED <<listeners, table, changes, now, requests, calls, last, userVars, tree>>

\* db[this.tableName].bulkPut(values[this.tableName])
ChunkPutTable ==
  /\ tx.phase = "logged" /\ tx.op = "bulkCopy"
  /\ tx' = [tx EXCEPT !.phase = "written",
                      !.table = TableBulkPut(tx.table,
                         [i \in 1..Len(tx.values) |-> tx.values[i].copy], 1)]
  /\ UNCHANGED <<listeners, table, changes, now, requests, calls, last, userVars, tree>>

\* the transaction of the chunk completes
ChunkCommit ==
  /\ tx.phase = "written" /\ tx.op = "bulkCopy"
  /\ table' = tx.table
  /\ changes' = tx.changes
  /\ tx' = [tx EXCEPT !.phase = "committed", !.chunks = Tail(tx.chunks),
                      !.done = tx.done + 1]
  /\ UNCHANGED <<listeners, now, requests, calls, last, userVars, tree>>

\* the store fails a write of the chunk: its transaction aborts and the
\* promise of bulkCopy rejects, the chunks left are not copied
ChunkAbort ==
  /\ tx.phase \in {"open", "logged", "written"} /\ tx.op = "bulkCopy"
  /\ table' = Rollback(table, tx.table)
  /\ changes' = Rollback(changes, tx.changes)
  /\ tx' = [tx EXCEPT !.phase = "aborted"]
  /\ UNCHANGED <<listeners, now, requests, calls, last, userVars, tree>>

\* a store that holds the objects of BulkIds
BulkInit ==
  /\ table = [k \in BulkIds |-> [f \in {"id", "x"} |-> IF f = "id" THEN k ELSE 1]]
  /\ changes = <<>>
  /\ now = 0
  /\ requests = <<>>
  /\ calls = <<>>
  /\ last = Other
  /\ OthersInit

BulkNext ==
  \/ \E S \in (SUBSET BulkIds) \ {{}}, mods \in {NoObj} \cup InputMods :
       BulkCopyBegin(SortedSeq(S), mods)
  \/ ChunkOpen
  \/ ChunkPutChanges
  \/ ChunkPutTable
  \/ ChunkCommit
  \/ ChunkAbort

\* one bulkCopy, seen at every step of its transactions
SpecBulk == BulkInit /\ [][BulkNext]_vars

ReconcileNext ==
  \/ \E obj \in InputObjs : Put(obj)
  \/ \E id \in Keys, ch \in InputMods : Update(id, ch)
  \/ \E id \in Keys : Delete(id)
  \/ \E params \in WhereParams : RemoteRequest(params)
  \/ \E r \in 1..MaxRequests : RespondCollection(r)
  \/ \E r \in 1..MaxRequests : FetchCollection(r)
  \/ SyncDrain

\* local writes and collection fetches performed for other contexts
SpecReconcile == FetchInit /\ [][ReconcileNext]_vars

DeletedReadNext ==
  \/ \E obj \in InputObjs : Put(obj)
  \/ \E id \in Keys : Delete(id)
  \/ \E id \in Keys : Get(id)
  \/ \E r \in 1..MaxCalls : RespondModel(r)
  \/ \E r \in 1..MaxCalls : FetchModel(r)

\* local writes and deletes, and reads by id answered by the server
SpecDeletedRead == FetchInit /\ [][DeletedReadNext]_vars

\* the store a session starts from: empty, or holding an object that was
\* created locally (never fetched) and whose change record has been synced
WhereInit ==
  /\ table \in {NoObj} \cup {Upsert(NoObj, obj["id"], obj) : obj \in InputObjs}
  /\ changes = <<>>
  /\ now = 0
  /\ requests = <<>>
  /\ calls = <<>>
  /\ last = Other
  /\ OthersInit

WhereNext ==
  \/ \E params \in WhereParams : Where(params)
  \/ \E r \in 1..MaxCalls : RespondCollection(r)
  \/ \E r \in 1..MaxCalls : RequestFails(r)
  \/ \E r \in 1..MaxCalls : FetchCollection(r)
  \/ Tick

\* reads through Resource.where, the responses to them, and the clock
SpecWhere == WhereInit /\ [][WhereNext]_vars

----------------------------------------------------------------------------
(* The merge of the pending changes of one key, as fetchCollection uses it *)

\* the attribute change records one key can have pending
MergeRecords ==
  {Change(1, CREATED, obj, NoObj, NoObj, 0, CLIENTID, TABLE) :
     obj \in {o \in InputObjs : o["id"] = 1}}
  \cup {Change(1, UPDATED, NoObj, mods, NoObj, 0, CLIENTID, TABLE) :
          mods \in InputMods \cup {[f \in {"y"} |-> 1]}}
  \cup {Change(1, DELETED, NoObj, NoObj, NoObj, 0, CLIENTID, TABLE)}

MergeLogs == UNION {[1..n -> MergeRecords] : n \in 0..MaxMerge}

\* changes = mergeAllChanges(changes, true); collectChanges(changes)
MergeAll(k) ==
  /\ last = Other
  /\ last' = Did("merge", k, EffectiveChange(changes, TABLE, k), now)
  /\ UNCHANGED <<listeners, table, changes, now, requests, calls, userVars, treeVars>>

MergeInit ==
  /\ table = NoObj
  /\ changes \in MergeLogs
  /\ now = 0
  /\ requests = <<>>
  /\ calls = <<>>
  /\ last = Other
  /\ OthersInit

MergeNext == \E k \in {1} : MergeAll(k)

\* merges of the change logs of one key
SpecMerge == MergeInit /\ [][MergeNext]_vars

----------------------------------------------------------------------------
(* Tree.getNewSortOrder as a function of the siblings and the arguments *)

\* the parent, its children and a node that is not among them
SiblingParent == 1
SiblingIds == 2..(MaxSiblings + 1)
Outsider == MaxSiblings + 2

\* a parent with one to MaxSiblings children, their lft distinct whole
\* numbers in any order of the ids
SiblingTrees ==
  UNION {{[n \in {SiblingParent} \cup 2..(k + 1) |->
             IF n = SiblingParent THEN Node(n, Null, LftUnit, 0)
             ELSE Node(n, SiblingParent, f[n] * LftUnit, 1)] :
            f \in {g \in [2..(k + 1) -> 1..(MaxSiblings + 1)] :
                     \A a, b \in 2..(k + 1) : a # b => g[a] # g[b]}} :
         k \in 1..MaxSiblings}

\* tableMove / tableCopy: the call of getNewSortOrder with the siblings
\* read for the target
SortOrder(id, target, position) ==
  LET ps == getNewParentAndSiblings(tree, target, position)
  IN /\ last = Other
     /\ ps.ok /\ Len(ps.siblings) > 0
     /\ last' = Did("getNewSortOrder",
                    [id |-> id, target |-> target, position |-> position,
                     siblings |-> ps.siblings],
                    getNewSortOrder(id, target, position, ps.siblings), now)
     /\ UNCHANGED <<listeners, table, changes, now, requests, calls, userVars,
                    treeVars>>

SortOrderInit ==
  /\ table = NoObj
  /\ changes = <<>>
  /\ now = 0
  /\ requests = <<>>
  /\ calls = <<>>
  /\ listeners = {}
  /\ last = Other
  /\ users = NoObj
  /\ editors = NoObj
  /\ viewers = NoObj
  /\ tree \in SiblingTrees
  /\ tx = TxIdle

SortOrderNext ==
  \E id \in SiblingIds \cup {Outsider},
     target \in {SiblingParent} \cup SiblingIds,
     position \in validPositions : SortOrder(id, target, position)

\* sort orders computed for the children of one parent
SpecSortOrder == SortOrderInit /\ [][SortOrderNext]_vars

----------------------------------------------------------------------------
(* The request broker: makeRequest and the messages of the channel *)

REQUEST_RESPONSE == "REQUEST_RESPONSE"
FETCH_COLLECTION == "FETCH_COLLECTION"
FETCH_MODEL == "FETCH_MODEL"
SUCCESS == "SUCCESS"
FAILURE == "FAILURE"

\* what reject() without an argument rejects with
Undefined == "undefined"

\* the messages another context may post on the channel: responses and
\* requests, with the id of a request of this context or with another id
BrokerMessages ==
  [messageId : 1..(MaxCalls + 1), type : {REQUEST_RESPONSE},
   status : {SUCCESS}, err : {""},
   data : {<<>>, <<[f \in {"id", "x"} |-> 1]>>}]
  \cup [messageId : 1..(MaxCalls + 1), type : {REQUEST_RESPONSE},
        status : {FAILURE, "PENDING"}, err : {"", FetchError}, data : {<<>>}]
  \cup [messageId : 1..(MaxCalls + 1), type : {FETCH_COLLECTION},
        status : {SUCCESS}, err : {""}, data : {<<>>}]

\* a handler that takes every response for its own
HandlesAnyId(msg, messageId) == msg.type = REQUEST_RESPONSE

\* handler(msg): the test that the message answers this request
Handles(msg, messageId) ==
  msg.messageId = messageId /\ msg.type = REQUEST_RESPONSE

\* handler(msg): what a handled message settles the promise with
Settlement(msg) ==
  IF msg.status = SUCCESS
    THEN [status |-> "resolved", result |-> msg.data, err |-> ""]
  ELSE IF msg.status = FAILURE /\ msg.err # ""
    THEN [status |-> "rejected", result |-> <<>>, err |-> msg.err]
  ELSE [status |-> "rejected", result |-> <<>>, err |-> Undefined]

\* makeRequest(request) up to channel.addEventListener: the promise exists,
\* its handler is registered under a fresh messageId, nothing is posted
MakeRequestListen(kind) ==
  LET messageId == Len(requests) + 1
  IN /\ Len(requests) < MaxCalls
     /\ \A r \in 1..Len(requests) : requests[r].phase # "listening"
     /\ requests' = Append(requests,
                           [Request(kind, NoParams, 0, messageId)
                              EXCEPT !.phase = "listening"])
     /\ calls' = Append(calls, Call("request", "pending", <<>>, <<>>, messageId))
     /\ listeners' = listeners \cup {messageId}
     /\ last' = Other
     /\ UNCHANGED <<table, changes, now, userVars, treeVars>>

\* makeRequest(request): channel.postMessage({...request, urlName, messageId})
MakeRequestPost ==
  \E r \in 1..Len(requests) :
    /\ requests[r].phase = "listening"
    /\ requests' = [requests EXCEPT ![r].phase = "posted"]
    /\ last' = Other
    /\ UNCHANGED <<listeners, table, changes, now, calls, userVars, treeVars>>

\* the channel delivers msg: every registered handler runs on it; no
\* handler runs while the executor of makeRequest is running
Deliver(msg) ==
  LET handled == {id \in listeners : Handles(msg, id)}
  IN /\ \A r \in 1..Len(requests) : requests[r].phase # "listening"
     /\ listeners' = listeners \ handled
     /\ calls' = [i \in 1..Len(calls) |->
                    IF i \in handled
                    THEN [calls[i] EXCEPT !.status = Settlement(msg).status,
                                          !.result = Settlement(msg).result,
                                          !.err = Settlement(msg).err]
                    ELSE calls[i]]
     /\ last' = Did("message", msg, handled, now)
     /\ UNCHANGED <<table, changes, now, requests, userVars, treeVars>>

BrokerNext ==
  \/ \E kind \in {"collection", "model"} : MakeRequestListen(kind)
  \/ MakeRequestPost
  \/ \E msg \in BrokerMessages : Deliver(msg)

\* requests made through the broker and the messages they receive
SpecBroker == FetchInit /\ [][BrokerNext]_vars

----------------------------------------------------------------------------
(* IndexedDBResource.where as a function of the table and the parameters *)

ItemIds == 1..MaxItems

\* the objects of a queried table: name and language are indexed, x is not
QueryObjs(k) ==
  {[f \in {"id", "name", "language", "x"} |->
      IF f = "id" THEN k ELSE IF f = "name" THEN n
      ELSE IF f = "language" THEN 1 ELSE v] : n \in XValues, v \in XValues}

QueryTables ==
  UNION {{t \in [D -> UNION {QueryObjs(k) : k \in D}] :
            \A k \in D : t[k]["id"] = k} : D \in SUBSET ItemIds}

QueryParamKeys ==
  {<<"id", "in">>, <<"name", "in">>, <<"name", "">>, <<"language", "">>,
   <<"x", "">>, <<"x", "in">>}

\* equality and range parameters, on indexed and on non-indexed fields
RangeParamKeys ==
  {<<"name", "">>, <<"x", "">>, <<"x", "gt">>, <<"x", "lte">>,
   <<"id", "gte">>, <<"id", "lt">>}

\* the values a caller passes under a key: arrays for __in, else a value
QueryParamValues(p) ==
  IF p[2] = "in"
  THEN IF p[1] = "id" THEN {Arr(ItemIds), Arr({1, MaxItems}), Arr({1})}
       ELSE {Arr(XValues), Arr({1})}
  ELSE IF p[2] = "" THEN IF p[1] = "x" THEN {Num(v) : v \in XValues}
                         ELSE {Num(1)}
  ELSE IF p[1] = "x" THEN {Num(1)}
  ELSE {Num(2)}

\* the parameter objects with the keys D
RECURSIVE ParamsOver(_)
ParamsOver(D) ==
  IF D = {} THEN {NoParams}
  ELSE LET p == CHOOSE p \in D : TRUE
       IN {[q \in D |-> IF q = p THEN v ELSE ps[q]] :
             ps \in ParamsOver(D \ {p}), v \in QueryParamValues(p)}

QueryParams ==
  UNION {ParamsOver(D) : D \in (SUBSET QueryParamKeys) \cup (SUBSET RangeParamKeys)}

\* what a call of where() comes to: the array it resolves with, or a
\* TypeError thrown by the call
QueryResult(params, production, tbl) ==
  IF WhereThrows(params, production)
  THEN [threw |-> TRUE, items |-> <<>>]
  ELSE [threw |-> FALSE, items |-> IndexedDBWhere(params, tbl)]

\* IndexedDBResource.where(params) in a build with or without
\* NODE_ENV = 'production'
QueryWhere(params, production) ==
  /\ last = Other
  /\ last' = Did("query", [params |-> params, production |-> production],
                 QueryResult(params, production, table), now)
  /\ UNCHANGED <<listeners, table, changes, now, requests, calls, userVars, treeVars>>

QueryInit ==
  /\ table \in QueryTables
  /\ changes = <<>>
  /\ now = 0
  /\ requests = <<>>
  /\ calls = <<>>
  /\ last = Other
  /\ OthersInit

QueryNext ==
  \E params \in QueryParams, production \in BOOLEAN :
    QueryWhere(params, production)

\* queries of a table through IndexedDBResource.where
SpecQuery == QueryInit /\ [][QueryNext]_vars

ReadNext ==
  \/ \E id \in Keys : Get(id)
  \/ \E params \in {NoParams} : Where(params)
  \/ \E r \in 1..MaxCalls : RespondModel(r)
  \/ \E r \in 1..MaxCalls : FetchModel(r)
  \/ \E r \in 1..MaxCalls : RespondCollection(r)
  \/ \E r \in 1..MaxCalls : FetchCollection(r)
  \/ Tick

\* reads through Resource.get and Resource.where of records fetched earlier
SpecRead == FetchInit /\ [][ReadNext]_vars

----------------------------------------------------------------------------
(* Properties of the fetch reconciliation *)

HasType(pend, type) == \E j \in 1..Len(pend) : pend[j].type = type

\* the fields set by the UPDATED records of pend
UpdatedFields(pend) ==
  UNION {DOMAIN pend[j].mods : j \in {i \in 1..Len(pend) : pend[i].type = UPDATED}}

\* the value the most recent UPDATED record of pend gives field f
LastMod(pend, f) ==
  LET J == {j \in 1..Len(pend) : pend[j].type = UPDATED /\ f \in DOMAIN pend[j].mods}
      j == CHOOSE a \in J : \A b \in J : b <= a
  IN pend[j].mods[f]

FetchedKeys == {last.input[i]["id"] : i \in 1..Len(last.input)}

FetchedItem(k) ==
  last.input[CHOOSE i \in 1..Len(last.input) : last.input[i]["id"] = k]

\* C1: while an UPDATED change of key K is pending (and K is not deleted),
\* the stored record of K carries the locally updated value of every field
\* of the change's mods, whatever collection fetches were reconciled before
\* or after the update.
C1_PendingUpdateNotClobbered ==
  \A k \in Keys :
    LET pend == ChangesFor(changes, TABLE, k)
    IN (HasType(pend, UPDATED) /\ ~HasType(pend, DELETED)) =>
         /\ k \in DOMAIN table
         /\ \A f \in UpdatedFields(pend) :
              Has(table[k], f) /\ table[k][f] = LastMod(pend, f)

\* a fetch has just been reconciled whose response held K with another
\* value of x than the pending local update, and the local value is stored
C1_Witness ==
  /\ last.op = "fetchCollection"
  /\ \E k \in FetchedKeys :
       LET pend == ChangesFor(last.changes, TABLE, k)
       IN /\ HasType(pend, UPDATED) /\ ~HasType(pend, DELETED)
          /\ ~HasType(pend, CREATED)
          /\ "x" \in UpdatedFields(pend)
          /\ FetchedItem(k)["x"] # LastMod(pend, "x")
          /\ table[k]["x"] = LastMod(pend, "x")

\* C2: a collection fetch whose response holds an item with a pending
\* DELETED change does not write that item: the key is stored after the
\* fetch exactly if it was before, with the same record.
C2_DeletedNotResurrected ==
  last.op = "fetchCollection" =>
    \A k \in FetchedKeys :
      HasType(ChangesFor(last.changes, TABLE, k), DELETED) =>
        /\ (k \in DOMAIN table) = (k \in DOMAIN last.table)
        /\ k \in DOMAIN table => table[k] = last.table[k]

\* a fetch has just been reconciled whose response held a locally deleted
\* key, and the key is still absent
C2_Witness ==
  /\ last.op = "fetchCollection"
  /\ \E k \in FetchedKeys :
       /\ HasType(ChangesFor(last.changes, TABLE, k), DELETED)
       /\ k \notin DOMAIN last.table
       /\ k \notin DOMAIN table

\* C3: after a collection fetch whose response holds key K with a pending
\* CREATED change (K not deleted), the stored record has the local object's
\* value in every field of that object and its last-fetched timestamp is the
\* time of this fetch.
C3_CreatedOverlaid ==
  last.op = "fetchCollection" =>
    \A k \in FetchedKeys :
      LET pend == ChangesFor(last.changes, TABLE, k)
      IN (Len(pend) > 0 /\ pend[1].type = CREATED /\ ~HasType(pend, DELETED)) =>
           /\ k \in DOMAIN table
           /\ \A f \in DOMAIN pend[1].obj :
                /\ Has(table[k], f)
                /\ table[k][f] = IF f \in UpdatedFields(pend)
                                 THEN LastMod(pend, f) ELSE pend[1].obj[f]
           /\ Has(table[k], LAST_FETCHED)
           /\ table[k][LAST_FETCHED] = last.at

\* a fetch has just been reconciled whose response held a locally created
\* key with another value of x, and the local value is stored
C3_Witness ==
  /\ last.op = "fetchCollection"
  /\ \E k \in FetchedKeys :
       LET pend == ChangesFor(last.changes, TABLE, k)
       IN /\ Len(pend) > 0 /\ pend[1].type = CREATED /\ ~HasType(pend, DELETED)
          /\ FetchedItem(k)["x"] # pend[1].obj["x"]
          /\ ~HasType(pend, UPDATED)
          /\ table[k]["x"] = pend[1].obj["x"]
          /\ table[k][LAST_FETCHED] = last.at

----------------------------------------------------------------------------
(* Properties of the read path *)

\* the stored objects a query of equality parameters selects
LocalRows(params, tbl) ==
  {tbl[k] : k \in {j \in DOMAIN tbl :
     \A p \in DOMAIN params : Has(tbl[j], p[1]) /\ tbl[j][p[1]] = params[p].v}}

\* the age of the object since its last remote fetch exceeds the interval
StaleAt(obj, t) ==
  Has(obj, LAST_FETCHED) /\ t - obj[LAST_FETCHED] > REFRESH_INTERVAL * 1000

\* a where() whose local result is not empty has resolved with it when it
\* returns, and has posted a request exactly if some row is stale
LocalResultServed ==
  (last.op = "where" /\ LocalRows(last.input, last.table) # {}) =>
    LET call == calls[Len(calls)]
        rows == LocalRows(last.input, last.table)
        posted == /\ call.req # 0
                  /\ requests[call.req].kind = "collection"
                  /\ requests[call.req].params = last.input
                  /\ requests[call.req].phase = "posted"
    IN /\ call.kind = "where"
       /\ call.status = "resolved"
       /\ SeqRange(call.result) = rows
       /\ Len(call.result) = Cardinality(rows)
       /\ posted = (\E obj \in rows : StaleAt(obj, last.at))
       /\ ~posted => call.req = 0

\* no step changes a where() promise resolved with a local result
LocalResultKept ==
  \A c \in 1..Len(calls) :
    (calls[c].kind = "where" /\ calls[c].status = "resolved"
       /\ Len(calls[c].objs) # 0) => calls'[c] = calls[c]

\* C9: Resource.where with a non-empty local result returns that result at
\* once; it posts a collection request if and only if a returned item is
\* stale, and no later outcome of that request changes the returned result.
C9_StaleWhileRevalidate ==
  [](LocalResultServed) /\ [][LocalResultKept]_vars

\* a where() was served stale rows and posted its background request, and
\* the response of that request has been written to the store since
C9_Witness ==
  \E c \in 1..Len(calls) :
    /\ calls[c].kind = "where" /\ calls[c].status = "resolved"
    /\ Len(calls[c].objs) # 0
    /\ calls[c].req # 0
    /\ requests[calls[c].req].phase = "done"
    /\ calls[c].result = calls[c].objs
    /\ \E i \in 1..Len(calls[c].objs) :
         table[calls[c].objs[i]["id"]] # calls[c].objs[i]

\* C10: a where() promise is rejected exactly when its local result was
\* empty and its request failed, with the error of the fetch; a failed
\* request of a where() with a local result leaves the promise resolved
\* with that result, and a failed request changes neither the table nor the
\* change log.
C10_FailureOnlyWithoutFallback ==
  /\ \A c \in 1..Len(calls) :
       calls[c].kind = "where" =>
         LET failed == calls[c].req # 0 /\ requests[calls[c].req].phase = "failed"
         IN /\ (calls[c].status = "rejected") = (failed /\ Len(calls[c].objs) = 0)
            /\ calls[c].status = "rejected" => calls[c].err = FetchError
            /\ (failed /\ Len(calls[c].objs) # 0) =>
                 /\ calls[c].status = "resolved"
                 /\ calls[c].result = calls[c].objs
  /\ last.op = "requestFails" =>
       /\ table = last.table
       /\ changes = last.changes

\* the background request of a where() served stale rows has just failed,
\* after an earlier where() without local rows was rejected or resolved
C10_Witness ==
  /\ last.op = "requestFails"
  /\ \E c \in 1..Len(calls) :
       /\ calls[c].kind = "where"
       /\ calls[c].req = last.input
       /\ Len(calls[c].objs) # 0
       /\ calls[c].status = "resolved"
       /\ table # NoObj

\* C11: a get(id) or where(params) that returns a stored record whose
\* last-fetched timestamp is older than the refresh interval posts a remote
\* request for it.
C11_StaleReadRefetches ==
  (last.op \in {"get", "where"}
     /\ \E i \in 1..Len(last.result) : StaleAt(last.result[i], last.at)) =>
    LET call == calls[Len(calls)]
    IN /\ call.req # 0
       /\ call.req = Len(requests)
       /\ requests[call.req].phase = "posted"

----------------------------------------------------------------------------
(* Properties of copies *)

\* the table the last copy wrote to
CopiedTable == IF last.op = "userCopy" THEN users ELSE table

\* the ids of the sources of the last copy, in order
CopiedIds == IF last.op = "bulkCopy" THEN last.input ELSE <<last.input>>

\* C12: Resource.copy of an existing record stores the duplicate under a
\* primary key that no record of the table had before the call, and leaves
\* the source record as it was - also for a resource that does not
\* generate its keys.
C12_CopyUnderFreshKey ==
  last.op \in {"copy", "userCopy"} =>
    /\ last.result.stored[1] \notin DOMAIN last.table
    /\ last.result.stored[1] \in DOMAIN CopiedTable
    /\ last.input \in DOMAIN CopiedTable
    /\ CopiedTable[last.input] = last.table[last.input]

\* C13: each duplicate stored by copy or bulkCopy comes with exactly one
\* COPIED change record, whose key is the primary key the duplicate is
\* stored under, whose from_key is the primary key of the source and whose
\* mods are what the updater returned.
C13_CopiedRecordPerDuplicate ==
  last.op \in {"copy", "userCopy", "bulkCopy"} =>
    LET appended == SubSeq(changes, Len(last.changes) + 1, Len(changes))
    IN /\ Len(changes) = Len(last.changes) + Len(CopiedIds)
       /\ SubSeq(changes, 1, Len(last.changes)) = last.changes
       /\ \A i \in 1..Len(CopiedIds) :
            /\ appended[i].type = COPIED
            /\ appended[i].key = last.result.stored[i]
            /\ appended[i].from_key = CopiedIds[i]
            /\ appended[i].mods = last.result.mods
            /\ last.result.stored[i] \in DOMAIN CopiedTable

\* C14: every change record a local mutation writes itself - the COPIED
\* records of copy and bulkCopy, the MOVED and COPIED records of the tree,
\* the relation records of EditorM2M.put and ViewerM2M.delete - carries the
\* local client id as its source.
C14_LocalRecordsHaveClientSource ==
  \A i \in 1..Len(changes) :
    changes[i].type \in {COPIED, MOVED, CREATED_RELATION, DELETED_RELATION} =>
      changes[i].source = CLIENTID

\* the copies of the chunk in hand are stored, with their COPIED records
ChunkStored ==
  \A i \in 1..Len(tx.values) :
    /\ tx.values[i].copy["id"] \in DOMAIN table
    /\ table[tx.values[i].copy["id"]] = tx.values[i].copy
    /\ \E j \in 1..Len(changes) : changes[j] = tx.values[i].change

\* none of the copies of the chunk in hand is stored, nor any of its records
ChunkAbsent ==
  \A i \in 1..Len(tx.values) :
    /\ tx.values[i].copy["id"] \notin DOMAIN table
    /\ \A j \in 1..Len(changes) : changes[j] # tx.values[i].change

\* C15: bulkCopy works through chunks of at most ChunkSize objects, and in
\* every observable state the copies of a chunk and their COPIED records
\* are either all stored or all absent: absent until the transaction of
\* the chunk completes and after it aborts, stored once it has completed.
C15_ChunkAtomic ==
  (tx.phase # "idle" /\ tx.op = "bulkCopy") =>
    /\ Len(tx.values) <= ChunkSize
    /\ \A c \in 1..Len(tx.chunks) : Len(tx.chunks[c]) \in 1..ChunkSize
    /\ ChunkStored \/ ChunkAbsent
    /\ tx.phase \in {"open", "logged", "written", "aborted"} => ChunkAbsent
    /\ tx.phase = "committed" => ChunkStored
    /\ Len(changes) = Cardinality(DOMAIN table) - MaxBulk

\* the second chunk of a bulkCopy was aborted after its records and copies
\* had been put, the first chunk being stored
C15_Witness ==
  /\ tx.phase = "aborted" /\ tx.op = "bulkCopy"
  /\ tx.done = 1
  /\ Len(tx.values) > 0
  /\ tx.table # table /\ tx.changes # changes
  /\ Len(changes) = ChunkSize
  /\ ChunkAbsent

----------------------------------------------------------------------------
(* Properties of fetch-origin writes *)

FetchOps == {"fetchModel", "fetchCollection", "channelUserFetch"}

----------------------------------------------------------------------------
(* Properties of the tree *)

\* the ids of the children of parent in ascending order of lft
ChildIds(tr, parent) ==
  LET kids == childrenOf(tr, parent) IN [i \in 1..Len(kids) |-> kids[i]["id"]]

IndexOf(seq, x) == CHOOSE i \in 1..Len(seq) : seq[i] = x

SeqWithout(seq, x) == SelectSeq(seq, LAMBDA y : y # x)

\* siblings have pairwise distinct positive numeric lft
DistinctPositive(tr) ==
  \A n \in DOMAIN tr :
    /\ tr[n]["lft"] # Null /\ tr[n]["lft"] > 0
    /\ \A m \in DOMAIN tr :
         (m # n /\ tr[m]["parent"] = tr[n]["parent"]) => tr[m]["lft"] # tr[n]["lft"]

\* C5: after a committed move or copy of an existing node relative to an
\* existing target, on a tree whose siblings had distinct positive lft, the
\* children of the resolved parent sorted by lft have the moved node or the
\* new copy at the requested position and the other children in their
\* previous relative order.
C5_PlacedAtRequestedPosition ==
  (/\ tx.phase = "committed"
   /\ DistinctPositive(tx.tree0)
   /\ tx.id \in DOMAIN tx.tree0 /\ tx.target \in DOMAIN tx.tree0
   /\ tx.op = "move" => tx.id # tx.target
   /\ tx.position \in {LEFT, RIGHT} => tx.tree0[tx.target]["parent"] # Null) =>
    LET n == tx.data["id"]
        parent == IF tx.position \in {FIRST_CHILD, LAST_CHILD} THEN tx.target
                  ELSE tx.tree0[tx.target]["parent"]
        kids == ChildIds(tree, parent)
    IN /\ n \in SeqRange(kids)
       /\ tx.position = FIRST_CHILD => kids[1] = n
       /\ tx.position = LAST_CHILD => kids[Len(kids)] = n
       /\ tx.position = LEFT => IndexOf(kids, n) + 1 = IndexOf(kids, tx.target)
       /\ tx.position = RIGHT => IndexOf(kids, n) = IndexOf(kids, tx.target) + 1
       /\ SeqWithout(kids, n) = SeqWithout(ChildIds(tx.tree0, parent), n)

\* C6: in every state of the tree table reached from the initial tree by
\* moves and copies, every node has a numeric lft and no two nodes with the
\* same parent have equal lft.
C6_LftNumericDistinct ==
  \A n \in DOMAIN tree :
    /\ tree[n]["lft"] # Null
    /\ \A m \in DOMAIN tree :
         (m # n /\ tree[m]["parent"] = tree[n]["parent"]) =>
           tree[m]["lft"] # tree[n]["lft"]

\* C7: outside the transaction of a move, the tree table and the change log
\* are either both as they were when the move started, or the node has the
\* new parent and lft and the MOVED record of the move is the one record
\* appended; they are as before while the move runs and after it aborted,
\* and changed once it committed.
C7_MoveAtomic ==
  (tx.phase # "idle" /\ tx.op = "move") =>
    LET before == tree = tx.tree0 /\ changes = tx.changes0
        after ==
          /\ Len(changes) = Len(tx.changes0) + 1
          /\ SubSeq(changes, 1, Len(tx.changes0)) = tx.changes0
          /\ changes[Len(changes)].type = MOVED
          /\ changes[Len(changes)].table = TREE
          /\ changes[Len(changes)].key = tx.id
          /\ tx.id \in DOMAIN tree
          /\ tree[tx.id]["parent"] = tx.data["parent"]
          /\ tree[tx.id]["lft"] = tx.data["lft"]
    IN /\ before \/ after
       /\ tx.phase \in {"open", "written", "logged", "failed", "aborted"} => before
       /\ tx.phase = "committed" => after

\* a move was aborted after it had written the node in its transaction
C7_Witness ==
  /\ tx.phase = "aborted" /\ tx.op = "move"
  /\ tx.tree # tx.tree0
  /\ tree = tx.tree0 /\ changes = tx.changes0

\* the operation in hand names a node the tree table did not hold when it
\* began: the target of a move, the source or the target of a copy
MissingId ==
  \/ tx.target \notin DOMAIN tx.tree0
  \/ tx.op = "copy" /\ tx.id \notin DOMAIN tx.tree0

\* C16: a Tree.move whose target is not in the tree table, and a Tree.copy
\* whose source or target is not, is rejected and writes neither the tree
\* table nor the change log, whatever the position.
C16_MissingIdRejected ==
  (tx.phase # "idle" /\ tx.op \in {"move", "copy"} /\ MissingId) =>
    /\ tx.phase \in {"open", "failed", "aborted"}
    /\ tree = tx.tree0
    /\ changes = tx.changes0

\* no transaction of the tree works with an invalid position
OpenedValid == tx.phase # "idle" => tx.position \in validPositions

\* a step in which a call throws changes no table and opens no transaction
ThrowStep ==
  (last'.op = "throws" /\ last' # last) =>
    /\ last'.input[2] \notin validPositions
    /\ UNCHANGED <<tree, table, changes, tx>>

\* C17: Tree.move, Tree.copy and ContentNode.copy called with a position
\* outside the valid positions throw before a transaction is opened; the
\* tree table, the content node table and the change log stay as they are.
C17_InvalidPositionThrows ==
  [](OpenedValid) /\ [][ThrowStep]_vars

\* a call has thrown on an invalid position after an earlier operation had
\* committed its write
C17_Witness ==
  /\ last.op = "throws"
  /\ last.input[2] \notin validPositions
  /\ last.tx.phase = "committed"
  /\ tree = last.tree /\ changes = last.changes /\ tx = last.tx

----------------------------------------------------------------------------
(* Properties of a deep copy *)

\* the node id and its descendants in the tree tr
RECURSIVE SubtreeOf(_, _)
SubtreeOf(tr, id) ==
  LET kids == {n \in DOMAIN tr : tr[n]["parent"] = id}
      Under[S \in SUBSET kids] ==
        IF S = {} THEN {}
        ELSE LET k == CHOOSE k \in S : TRUE
             IN SubtreeOf(tr, k) \cup Under[S \ {k}]
  IN {id} \cup Under[kids]

\* a deep Tree.copy of a node with a target outside the node's subtree has
\* resolved: every transaction of the recursion has committed
DeepCopyDone ==
  /\ tx.phase = "committed" /\ tx.queue = <<>> /\ ~tx.rejected
  /\ tx.op = "copy" /\ tx.deep
  /\ tx.call.id \in DOMAIN tx.call.tree
  /\ tx.call.target \notin SubtreeOf(tx.call.tree, tx.call.id)

\* C18: when a deep Tree.copy of a subtree with a target outside the subtree
\* has resolved, there is exactly one new node per node of the original
\* subtree, the source_id of each new node is the id of the node it was
\* copied from, the parent of the copy of a child is the copy of the
\* child's original parent, and the returned list starts with the copy of
\* the root of the subtree
C18_DeepCopyMirrorsSubtree ==
  DeepCopyDone =>
    LET old == tx.call.tree
        sub == SubtreeOf(old, tx.call.id)
        new == DOMAIN tree \ DOMAIN old
        copyOf(n) == CHOOSE m \in new : tree[m]["source_id"] = n
        returned == ResultsOf(tx.results, 1)
    IN /\ Cardinality(new) = Cardinality(sub)
       /\ \A n \in sub : Cardinality({m \in new : tree[m]["source_id"] = n}) = 1
       /\ \A n \in sub \ {tx.call.id} :
            tree[copyOf(n)]["parent"] = copyOf(old[n]["parent"])
       /\ Len(returned) = Cardinality(sub)
       /\ returned[1] = tree[copyOf(tx.call.id)]
       /\ \A m \in new : \E i \in 1..Len(returned) : returned[i] = tree[m]

\* a subtree of three levels has been copied next to itself
C18_Witness ==
  /\ DeepCopyDone
  /\ Cardinality(SubtreeOf(tx.call.tree, tx.call.id)) = 4
  /\ \E n \in SubtreeOf(tx.call.tree, tx.call.id) :
       tx.call.tree[tx.call.tree[n]["parent"]]["parent"] = tx.call.id
  /\ Len(tx.results) = 4

----------------------------------------------------------------------------
(* Properties of the change merger *)

\* the log that was merged is a CREATED record followed by UPDATED records
CreatedThenUpdated ==
  /\ last.op = "merge"
  /\ Len(last.changes) > 0
  /\ last.changes[1].type = CREATED
  /\ \A i \in 2..Len(last.changes) : last.changes[i].type = UPDATED

\* the value of field f after the mods of the records 2..n were applied in
\* order to the created object: that of the last record that sets f
FieldAfter(chs, f) ==
  LET setters == {i \in 2..Len(chs) : Has(chs[i].mods, f)}
  IN IF setters = {} THEN chs[1].obj[f]
     ELSE chs[CHOOSE i \in setters : \A j \in setters : j <= i].mods[f]

\* C23: merging a CREATED record followed by UPDATED records of one key
\* yields a single CREATED record whose object is the created object with
\* all the UPDATED mods applied in order, later mods overriding earlier ones
C23_CreatedAbsorbsUpdates ==
  CreatedThenUpdated =>
    LET chs == last.changes
        fields == DOMAIN chs[1].obj \cup
                  UNION {DOMAIN chs[i].mods : i \in 2..Len(chs)}
    IN /\ last.result.type = CREATED
       /\ last.result.key = last.input
       /\ DOMAIN last.result.obj = fields
       /\ \A f \in fields : last.result.obj[f] = FieldAfter(chs, f)

\* a created object and two updates of the same field were merged
C23_Witness ==
  /\ CreatedThenUpdated
  /\ Len(last.changes) = 3
  /\ Has(last.changes[2].mods, "x") /\ Has(last.changes[3].mods, "x")
  /\ last.changes[2].mods["x"] # last.changes[3].mods["x"]
  /\ last.result.type = CREATED
  /\ last.result.obj["x"] = last.changes[3].mods["x"]

\* C24: merging a sequence of CREATED, UPDATED and DELETED records of one
\* key that ends in DELETED yields exactly one DELETED record for the key
\* and no CREATED or UPDATED record
C24_EndsDeletedMergesToDeleted ==
  (/\ last.op = "merge"
   /\ Len(last.changes) > 0
   /\ last.changes[Len(last.changes)].type = DELETED) =>
    /\ last.result.type = DELETED
    /\ last.result.key = last.input
    /\ \A type \in {CREATED, UPDATED} :
         ~Collected(last.changes, TABLE, type, last.input)

\* a created and updated object that was then deleted was merged
C24_Witness ==
  /\ last.op = "merge"
  /\ Len(last.changes) = 3
  /\ last.changes[1].type = CREATED
  /\ last.changes[2].type = UPDATED
  /\ last.changes[3].type = DELETED
  /\ last.result.type = DELETED

----------------------------------------------------------------------------
(* Properties of Tree.getNewSortOrder *)

\* the node of the last call already is where the call asks it to be: the
\* first sibling, the last sibling, or the neighbour of target on the
\* requested side
AlreadyThere ==
  LET sibs == last.input.siblings
      n == Len(sibs)
      T == {j \in 1..n : sibs[j]["id"] = last.input.target}
  IN \/ last.input.position = FIRST_CHILD /\ sibs[1]["id"] = last.input.id
     \/ last.input.position = LAST_CHILD /\ sibs[n]["id"] = last.input.id
     \/ /\ last.input.position = LEFT
        /\ \E t \in T : t > 1 /\ sibs[t - 1]["id"] = last.input.id
     \/ /\ last.input.position = RIGHT
        /\ \E t \in T : t < n /\ sibs[t + 1]["id"] = last.input.id

\* C27: getNewSortOrder returns null whenever the node already satisfies
\* the requested position in the ascending sibling list (first sibling,
\* last sibling, immediate left or right neighbour of target), for every
\* sibling list and index of target, also when the node is the last sibling
C27_NoOpReturnsNull ==
  (last.op = "getNewSortOrder" /\ AlreadyThere) => last.result = Null

\* C28: when the move is not a no-op getNewSortOrder returns half the first
\* sibling's lft for first-child, the last sibling's lft + 1 for last-child,
\* the midpoint of the lft of target and of its left neighbour (0 if none)
\* for left, and the midpoint of the lft of target and of its right
\* neighbour (target's lft + 2 if none) for right
C28_SortOrderValues ==
  (last.op = "getNewSortOrder" /\ ~AlreadyThere) =>
    LET sibs == last.input.siblings
        n == Len(sibs)
        t == CHOOSE j \in 1..n : sibs[j]["id"] = last.input.target
        pos == last.input.position
    IN /\ last.result # Null
       /\ pos = FIRST_CHILD => 2 * last.result = sibs[1]["lft"]
       /\ pos = LAST_CHILD => last.result = sibs[n]["lft"] + LftUnit
       /\ pos = LEFT =>
            2 * last.result =
              sibs[t]["lft"] + (IF t > 1 THEN sibs[t - 1]["lft"] ELSE 0)
       /\ pos = RIGHT =>
            2 * last.result =
              sibs[t]["lft"] + (IF t < n THEN sibs[t + 1]["lft"]
                                ELSE sibs[t]["lft"] + 2 * LftUnit)

\* left of the middle of siblings with lft 1, 2, 3 gave 1.5, and first-child
\* before a first sibling with lft 4 gives 2
C28_Witness ==
  /\ last.op = "getNewSortOrder"
  /\ ~AlreadyThere
  /\ \/ /\ last.input.position = LEFT
        /\ Len(last.input.siblings) = 3
        /\ \A j \in 1..3 : last.input.siblings[j]["lft"] = j * LftUnit
        /\ last.input.target = last.input.siblings[2]["id"]
        /\ 2 * last.result = 3 * LftUnit
     \/ /\ last.input.position = FIRST_CHILD
        /\ last.input.siblings[1]["lft"] = 4 * LftUnit
        /\ last.result = 2 * LftUnit

\* the move that has just been committed is one for which getNewSortOrder
\* returned null
MovedAsNoOp ==
  /\ tx.phase = "committed" /\ tx.op = "move"
  /\ tx.id \in DOMAIN tx.tree0
  /\ LET ps == getNewParentAndSiblings(tx.tree0, tx.target, tx.position)
     IN /\ ps.ok /\ Len(ps.siblings) > 0
        /\ getNewSortOrder(tx.id, tx.target, tx.position, ps.siblings) = Null

\* C29: when getNewSortOrder returns null for a Tree.move, the move is a
\* no-op on the node: its lft and its parent after the move are those it
\* had before
C29_NoOpMoveKeepsNode ==
  MovedAsNoOp =>
    /\ tree[tx.id]["lft"] = tx.tree0[tx.id]["lft"]
    /\ tree[tx.id]["parent"] = tx.tree0[tx.id]["parent"]

\* every node of the tree has a sort order above 0
AllLftPositive ==
  \A n \in DOMAIN tree : tree[n]["lft"] # Null /\ tree[n]["lft"] > 0

\* a committed insertion as first child under siblings gives a sort order
\* above 0 and below that of the first sibling so far
FirstChildStep ==
  (/\ tx.phase = "logged" /\ tx'.phase = "committed"
   /\ tx.position = FIRST_CHILD
   /\ Len(childrenOf(tx.tree0, tx.target)) > 0) =>
    LET first == childrenOf(tx.tree0, tx.target)[1]
    IN /\ tx.data["lft"] # Null
       /\ tx.data["lft"] > 0
       /\ tx.data["lft"] < first["lft"]

\* C30: starting from siblings whose lft are all above 0, after any sequence
\* of first-child, last-child, left and right moves or copies every lft of
\* the tree is above 0, and each insertion as first child yields a value
\* below the first sibling's lft and above 0
C30_LftStaysPositive ==
  /\ []AllLftPositive
  /\ [][FirstChildStep]_vars

----------------------------------------------------------------------------
(* Properties of the request broker *)

Unsettled == {i \in 1..Len(calls) : calls[i].status = "pending"}

\* the registered listeners are those of the unsettled requests
ListenersOfUnsettled ==
  /\ listeners = Unsettled
  /\ Cardinality(listeners) = Cardinality(Unsettled)

\* a request is posted only when its listener is registered
PostStep ==
  \A r \in 1..Len(requests') :
    (requests'[r].phase = "posted"
       /\ (r > Len(requests) \/ requests[r].phase # "posted")) =>
      /\ r \in listeners
      /\ r \in listeners'

\* a promise changes only by settling, once, on the response that carries
\* its messageId, and with what the status of the response says
SettleStep ==
  \A i \in 1..Len(calls) :
    calls'[i] # calls[i] =>
      /\ calls[i].status = "pending"
      /\ last'.op = "message"
      /\ last'.input.messageId = i
      /\ last'.input.type = REQUEST_RESPONSE
      /\ IF last'.input.status = SUCCESS
         THEN calls'[i].status = "resolved"
              /\ calls'[i].result = last'.input.data
         ELSE calls'[i].status = "rejected"
              /\ calls'[i].err =
                   IF last'.input.status = FAILURE /\ last'.input.err # ""
                   THEN last'.input.err ELSE Undefined
      /\ i \notin listeners'

\* the response that carries the messageId of an unsettled request settles it
ResponseSettles ==
  (last'.op = "message" /\ last' # last) =>
    \A i \in Unsettled :
      (last'.input.messageId = i /\ last'.input.type = REQUEST_RESPONSE)
        => calls'[i].status # "pending"

\* C25: a request made through the broker registers its listener before it
\* is posted; its promise settles at most once and only on a
\* REQUEST_RESPONSE message with its messageId, SUCCESS resolving with the
\* data and any other status rejecting (with err when given); any other
\* message leaves it pending, as does the absence of a response; the
\* listener is removed when the promise settles, so the registered
\* listeners are always those of the unsettled requests
C25_BrokerSettlesOnOwnResponse ==
  /\ []ListenersOfUnsettled
  /\ [][PostStep /\ SettleStep /\ ResponseSettles]_vars

\* of two posted requests one was resolved by its SUCCESS response, the
\* other is still pending with its listener registered
C25_Witness ==
  /\ Len(requests) = 2
  /\ \A r \in 1..2 : requests[r].phase = "posted"
  /\ last.op = "message"
  /\ last.input.status = SUCCESS /\ last.input.data # <<>>
  /\ \E i \in 1..2 :
       /\ last.result = {i}
       /\ calls[i].status = "resolved" /\ calls[i].result = last.input.data
       /\ calls[3 - i].status = "pending"
       /\ listeners = {3 - i}

\* requests r1 and r2 ask for the same collection or model with the same
\* parameters
Identical(r1, r2) ==
  /\ r1 # r2
  /\ requests[r1].kind = requests[r2].kind
  /\ requests[r1].params = requests[r2].params
  /\ requests[r1].id = requests[r2].id

InFlight(r) == requests[r].phase \in {"posted", "responded"}

\* of identical requests in flight together, the network has answered at
\* most one
OneFetchInFlight ==
  \A r1, r2 \in 1..Len(requests) :
    Identical(r1, r2) =>
      ~(requests[r1].phase = "responded" /\ requests[r2].phase = "responded")

\* when the fetch of a request completes, the identical requests in flight
\* complete with it and their callers receive its result
ShareStep ==
  \A r1, r2 \in 1..Len(requests) :
    (/\ Identical(r1, r2)
     /\ requests[r1].phase = "responded" /\ requests'[r1].phase = "done"
     /\ InFlight(r2)) =>
      /\ requests'[r2].phase = "done"
      /\ \A c \in 1..Len(calls) :
           (calls[c].req = r2 /\ calls[c].status = "pending") =>
             /\ calls'[c].status = "resolved"
             /\ calls'[c].result = last'.result

\* C26: when two reads request the same collection or model with identical
\* parameters while the first request is in flight, one network fetch is
\* performed and both requesters receive its result
C26_IdenticalReadsShareOneFetch ==
  /\ []OneFetchInFlight
  /\ [][ShareStep]_vars

----------------------------------------------------------------------------
(* Properties of IndexedDBResource.where *)

\* the objects of tbl that pass every parameter read as the caller means
\* it: membership for field__in, equality for a bare field
MeantIds(params, tbl) ==
  {k \in DOMAIN tbl :
     \A p \in DOMAIN params :
       CASE p[2] = "in" -> tbl[k][p[1]] \in params[p].v
         [] p[2] = "gt" -> tbl[k][p[1]] > params[p].v
         [] p[2] = "gte" -> tbl[k][p[1]] >= params[p].v
         [] p[2] = "lt" -> tbl[k][p[1]] < params[p].v
         [] p[2] = "lte" -> tbl[k][p[1]] <= params[p].v
         [] OTHER -> tbl[k][p[1]] = params[p].v}

Meant(params, tbl) == {tbl[k] : k \in MeantIds(params, tbl)}

\* the call returned exactly the objects of S, each once
ReturnedExactly(S) ==
  /\ ~last.result.threw
  /\ SeqRange(last.result.items) = S
  /\ Len(last.result.items) = Cardinality(S)

\* C19: where() given one membership parameter on an indexed field and
\* equality parameters besides (on indexed or non-indexed fields) returns
\* exactly the records that are in the membership set and satisfy every
\* equality parameter
C19_MembershipThenEquality ==
  (/\ last.op = "query"
   /\ \E p \in DOMAIN last.input.params :
        /\ p[2] = "in" /\ p[1] \in indexFields
        /\ \A q \in DOMAIN last.input.params \ {p} : q[2] = ""
   /\ \E q \in DOMAIN last.input.params : q[2] = "") =>
    ReturnedExactly(Meant(last.input.params, last.table))

\* the parameters of the last call are equality and range parameters only
NoMembership == \A p \in DOMAIN last.input.params : p[2] # "in"

\* C21: where(params) with any combination of indexed equality, non-indexed
\* equality and range parameters returns exactly the stored records that
\* satisfy every parameter, in the order of the store (ascending primary
\* key); with no parameters it returns the whole table
C21_EqualityAndRange ==
  (last.op = "query" /\ NoMembership) =>
    LET order == SortedSeq(MeantIds(last.input.params, last.table))
    IN /\ ~last.result.threw
       /\ last.result.items = [i \in 1..Len(order) |-> last.table[order[i]]]
       /\ last.input.params = NoParams =>
            Len(last.result.items) = Cardinality(DOMAIN last.table)

\* an indexed equality, a non-indexed equality and two range parameters
\* selected one record of a full table
C21_Witness ==
  /\ last.op = "query"
  /\ DOMAIN last.input.params =
       {<<"name", "">>, <<"x", "">>, <<"x", "lte">>, <<"id", "gte">>}
  /\ DOMAIN last.table = ItemIds
  /\ Len(last.result.items) = 1

\* the membership parameters on indexed fields of the last call
IndexedMemberships ==
  {p \in DOMAIN last.input.params : p[2] = "in" /\ p[1] \in indexFields}

\* C22: where() given more than one membership parameter on indexed fields
\* does not fail: it returns a result in which at least one of the
\* membership filters is honoured
C22_SeveralMembershipsBestEffort ==
  (last.op = "query" /\ Cardinality(IndexedMemberships) > 1) =>
    /\ ~last.result.threw
    /\ \E p \in IndexedMemberships :
         \A i \in 1..Len(last.result.items) :
           last.result.items[i][p[1]] \in last.input.params[p].v

\* C20: a where() parameter field__in with an array value is a membership
\* test, whether the field is a declared index or not: the result is exactly
\* the records whose field value is an element of the array
C20_InIsMembership ==
  (/\ last.op = "query"
   /\ Cardinality(DOMAIN last.input.params) = 1
   /\ \A p \in DOMAIN last.input.params : p[2] = "in") =>
    ReturnedExactly(Meant(last.input.params, last.table))

----------------------------------------------------------------------------
(* Properties of the stored records *)

\* C8: no record of the local store carries the new marker, whatever
\* sequence of put, bulkPut, update, modifyByIds, copy, bulkCopy and
\* Channel.update wrote it.
C8_NoStoredMarker ==
  \A k \in DOMAIN table : ~Has(table[k], NEW_OBJECT)

----------------------------------------------------------------------------
(* Properties of the change record and of the frame of a move *)

\* the transaction of a Tree.move commits in this step
MoveCommits == tx.phase = "logged" /\ tx'.phase = "committed" /\ tx.op = "move"

\* the resolved parent of the running call had no children when it started
NoSiblingsYet ==
  LET ps == getNewParentAndSiblings(tx.tree0, tx.target, tx.position)
  IN ps.ok /\ Len(ps.siblings) = 0

MoveRecordStep ==
  MoveCommits =>
    LET ps == getNewParentAndSiblings(tree, tx.target, tx.position)
        c == changes'[Len(changes')]
    IN /\ Len(changes') = Len(changes) + 1
       /\ SubSeq(changes', 1, Len(changes)) = changes
       /\ c.type = MOVED /\ c.key = tx.id /\ c.table = TREE
       /\ c.oldObj = IF tx.id \in DOMAIN tree THEN tree[tx.id] ELSE NoObj
       /\ DOMAIN c.mods = {"target", "position"}
       /\ c.mods.target = IF NoSiblingsYet THEN ps.parent ELSE tx.target
       /\ c.mods.position = IF NoSiblingsYet THEN LAST_CHILD ELSE tx.position

\* C31: every successful Tree.move appends exactly one MOVED record with
\* key = id, whose oldObj is the node as stored just before the move (none
\* if the node did not exist) and whose mods are the target and position of
\* the move, never the lft; when the resolved parent has no children yet the
\* mods are the resolved parent and last-child
C31_MoveRecord == [][MoveRecordStep]_vars

\* a move of a node that did not exist, as first child of a parent without
\* children, has committed and its record names the parent and last-child
C31_Witness ==
  /\ tx.phase = "committed" /\ tx.op = "move"
  /\ NoSiblingsYet
  /\ tx.id \notin DOMAIN tx.tree0
  /\ tx.position = FIRST_CHILD
  /\ changes[Len(changes)].mods = MoveMods(tx.target, LAST_CHILD)

\* the fields of a node that a move leaves alone
KeptFields == {"tree_id", "channel_id", "source_id", "level"}

MoveFrameStep ==
  MoveCommits =>
    LET ps == getNewParentAndSiblings(tree, tx.target, tx.position)
    IN /\ \A n \in DOMAIN tree : n # tx.id => (n \in DOMAIN tree' /\ tree'[n] = tree[n])
       /\ DOMAIN tree' = DOMAIN tree \cup {tx.id}
       /\ IF tx.id \in DOMAIN tree
          THEN /\ DOMAIN tree'[tx.id] = DOMAIN tree[tx.id]
               /\ \A f \in KeptFields \cap DOMAIN tree[tx.id] :
                    tree'[tx.id][f] = tree[tx.id][f]
          ELSE /\ tree'[tx.id]["tree_id"] = tree[ps.parent]["tree_id"]
               /\ tree'[tx.id]["channel_id"] = tree[ps.parent]["channel_id"]

\* C32: Tree.move on a node that exists writes only parent and lft onto it:
\* its tree_id, channel_id, source_id and level are unchanged and no other
\* node is modified; only a node that did not exist is created, with the
\* tree_id and channel_id of the resolved parent
C32_MoveWritesParentAndLft == [][MoveFrameStep]_vars

----------------------------------------------------------------------------
(* Properties of the collection fetch of the tree *)

\* the fetched item i has a pending MOVED record, and no node its move is
\* relative to has one
PendingMoveOf(i) ==
  LET c == CollectedMove(last.changes, last.input[i]["id"])
  IN /\ c.type = MOVED
     /\ c.mods.target # c.key
     /\ c.mods.position \in {LEFT, RIGHT} =>
          CollectedMove(last.changes, c.mods.target).type # MOVED

\* node n is where the move c asks for among the children of its parent
PlacedBy(tr, c) ==
  LET n == c.key
      parent == IF c.mods.position \in {FIRST_CHILD, LAST_CHILD}
                THEN c.mods.target ELSE tr[c.mods.target]["parent"]
      kids == ChildIds(tr, parent)
  IN /\ n \in DOMAIN tr /\ tr[n]["parent"] = parent
     /\ c.mods.position = FIRST_CHILD => kids[1] = n
     /\ c.mods.position = LAST_CHILD => kids[Len(kids)] = n
     /\ c.mods.position = LEFT => IndexOf(kids, n) + 1 = IndexOf(kids, c.mods.target)
     /\ c.mods.position = RIGHT => IndexOf(kids, n) = IndexOf(kids, c.mods.target) + 1

\* the fetched data did not have the node of move c where c asks for, and
\* the siblings of the table it was written to have distinct positive lft
FetchedElsewhere(c) ==
  /\ DistinctPositive(last.result.written)
  /\ ~(c.mods.target \in DOMAIN last.result.written /\ PlacedBy(last.result.written, c))

----------------------------------------------------------------------------
(* Properties of the shape of the tree *)

\* the node reached from n by following k parent links, Null when the links
\* end before
RECURSIVE AncestorAt(_, _, _)
AncestorAt(tr, n, k) ==
  IF n \notin DOMAIN tr THEN Null
  ELSE IF k = 0 THEN n
  ELSE AncestorAt(tr, tr[n]["parent"], k - 1)

\* no node of tr is its own ancestor
Acyclic(tr) ==
  \A n \in DOMAIN tr :
    \A k \in 1..Cardinality(DOMAIN tr) : AncestorAt(tr, n, k) # n

\* C35: starting from a forest, after any sequence of Tree.move and
\* Tree.copy the parent links are acyclic: no node is its own ancestor
C35_ParentLinksAcyclic == Acyclic(tree)

----------------------------------------------------------------------------
(* Properties of ChannelUser.makeEditor *)

\* makeEditor was called for a viewer of the channel
MadeEditor ==
  /\ tx.phase # "idle" /\ tx.op = "makeEditor"
  /\ M2MKey(tx.user, tx.channel) \in DOMAIN tx.viewers0

\* C40: ChannelUser.makeEditor(channel, user) is atomic: in no state is the
\* user neither a viewer nor an editor of the channel, and when recording
\* the editor relation fails the viewer relation and the change log are as
\* they were before the call
C40_MakeEditorAtomic ==
  MadeEditor =>
    /\ \/ M2MKey(tx.user, tx.channel) \in DOMAIN viewers
       \/ M2MKey(tx.user, tx.channel) \in DOMAIN editors
    /\ tx.phase = "aborted" => (viewers = tx.viewers0 /\ changes = tx.changes0)

----------------------------------------------------------------------------
(* Properties of reads that meet a pending delete *)

\* the fetch by id that a get(id) asked for commits in this step, while the
\* DELETED change of id is pending
FetchAfterDelete(r) ==
  /\ r \in 1..Len(requests)
  /\ requests[r].kind = "model" /\ requests[r].call # 0
  /\ requests[r].phase = "responded" /\ requests'[r].phase = "done"
  /\ Collected(changes, TABLE, DELETED, requests[r].id)

DeletedStaysDeleted ==
  \A r \in 1..MaxCalls :
    FetchAfterDelete(r) => requests[r].id \notin DOMAIN table'

\* C38: after a local delete(id) whose DELETED change is still pending, a
\* get(id) does not store the record locally again: the local miss and the
\* fetch by id leave the table without a record for id
C38_GetAfterDeleteStoresNothing == [][DeletedStaysDeleted]_vars

\* C39: the result a collection fetch returns to its caller has no item
\* whose key has a pending local DELETED change
C39_FetchResultOmitsDeleted ==
  last.op = "fetchCollection" =>
    \A i \in 1..Len(last.result) :
      ~Collected(last.changes, TABLE, DELETED, last.result[i]["id"])

\* C36: Tree.copy with deep = true terminates and creates finitely many
\* nodes for every target, also for a target inside the copied subtree: at
\* no point of the recursion are there more new nodes than the subtree had
\* nodes when the copy was called
C36_DeepCopyFinite ==
  (/\ tx.phase # "idle" /\ tx.op = "copy" /\ tx.deep
   /\ tx.call.id \in DOMAIN tx.call.tree) =>
    Cardinality(DOMAIN tree \ DOMAIN tx.call.tree)
      <= Cardinality(SubtreeOf(tx.call.tree, tx.call.id))

----------------------------------------------------------------------------
(* Properties of ContentNode.copy *)

\* a ContentNode.copy has resolved
NodesCopied == last.op = "contentNodeCopy" /\ last.result = "resolved"

\* the labels of the n-th copy of a node among its siblings: the first copy
\* may go without its number
CopyLabels(title, n) ==
  {nthCopy(title, n)} \cup (IF n = 1 THEN {firstCopy(title)} ELSE {})

\* the copies of source under parent whose content node has a title
TitledCopies(parent, source) ==
  {n \in DOMAIN tree : /\ tree[n]["parent"] = parent
                       /\ tree[n]["source_id"] = source
                       /\ n \in DOMAIN table /\ Has(table[n], "title")}

\* C34: a copy that ContentNode.copy places under the parent of its source
\* is titled with its copy number, the number of nodes under that parent
\* with the source_id of the copy, so that successive sibling copies of one
\* node have distinct successive labels; a copy under another parent keeps
\* the title of the source
C34_CopyNumberFromSiblings ==
  NodesCopied =>
    \A i \in 1..Len(last.input) :
      LET treeNode == last.input[i]
          source == treeNode["source_id"]
          parent == treeNode["parent"]
          title == table[treeNode["id"]]["title"]
      IN IF parent = tree[source]["parent"]
         THEN /\ title \in CopyLabels(table[source]["title"],
                                      countMap(tree, parent, source))
              /\ \A m \in TitledCopies(parent, source) \ {treeNode["id"]} :
                   table[m]["title"] # title
         ELSE title = table[source]["title"]

\* the COPIED records of the change log with key k
CopiedRecords(k) ==
  SelectSeq(changes, LAMBDA c : c.type = COPIED /\ c.table = TABLE /\ c.key = k)

\* C37: for every tree node that a ContentNode.copy created, shallow or
\* deep and whatever the size of the subtree, one content node with the id
\* of the tree node is stored and exactly one COPIED record keyed by that
\* id, with the id of the source node as from_key, is in the change log
C37_OneCopiedRecordPerNode ==
  last.op = "contentNodeCopy" =>
    \A i \in 1..Len(last.input) :
      LET k == last.input[i]["id"]
      IN /\ k \in DOMAIN table /\ table[k]["id"] = k
         /\ Len(CopiedRecords(k)) = 1
         /\ CopiedRecords(k)[1].from_key = last.input[i]["source_id"]

====
